---- MODULE Spec2Model ----
(***************************************************************************)
(* Model of moneyalloc_app/risk_optimizer.py: run_risk_equal_optimization  *)
(* as a pipeline of steps over one ProblemSpec.                            *)
(*                                                                         *)
(* Numbers.  The program computes in IEEE doubles and compares against     *)
(* tolerances (1e-9, 1e-8) after adding 1e-12 to the Gram diagonal.  The   *)
(* model computes in exact rationals <<numerator, denominator>> and takes  *)
(* the tolerances as infinitesimal: a value is "below -1e-9" iff it is     *)
(* negative, "at most 1e-9" iff it is at most 0, and two values are        *)
(* "close" iff they are equal.  For the inputs enumerated here every exact *)
(* value is 0 or a fraction with a small denominator, so that no exact     *)
(* value lies between 0 and a tolerance.  The regularised solve            *)
(* rows^T (rows rows^T + 1e-12 I)^-1 rhs is taken at its limit: the        *)
(* least-norm solution when the system is consistent, and a residual       *)
(* above 1e-8 (the program raises) when it is not.                         *)
(***************************************************************************)
EXTENDS Integers, Sequences, FiniteSets, TLC

(* ------------------------------------------------------------------ *)
(* Bounds of the enumerated inputs                                     *)
(* ------------------------------------------------------------------ *)
MaxTenor == 2
MaxHorizon == 2
\* keys of the tenors dict, in calls with well-formed inputs
MaxTenorEntries == 3
\* keys of the tenors dict, in calls with arbitrary inputs
MaxLooseEntries == 2
\* keys of the tenors dict, in calls that run beside another call
MaxCallEntries == 2
\* keys of the tenors dict, in calls with any strings as sleeves
MaxOpenEntries == 4
\* rows of the allocations repository
MaxAllocations == 2
\* rows ever added to the allocations table of the Database
MaxRows == 3

(* Names in Python's sorted() order of the strings. *)
BucketNames == <<"A", "B">>
SleeveNames == <<"credit", "rates", "tips">>
CurrencyNames == <<"EUR", "USD">>

Range(s) == {s[i] : i \in DOMAIN s}
Buckets == Range(BucketNames)
Sleeves == Range(SleeveNames)

(* Sleeve = str: a key of the tenors dict may carry any string as its *)
(* sleeve; "equity" stands for a string other than the three named,   *)
(* and the listing is in the order sorted() gives                     *)
SleeveKeys == <<"credit", "equity", "rates", "tips">>

Currencies == Range(CurrencyNames)

(* Position of a name in its sorted sequence: the model of string "<". *)
NameIndex(names, x) == CHOOSE i \in DOMAIN names : names[i] = x

(* Well-formed inputs: positive weights (40 + 60 is the one pair that sums *)
(* to 100), a horizon for every bucket, positive tenors.                   *)
WeightValues == {20, 40, 60}
HorizonValues == 1..MaxHorizon
TenorValues == 1..MaxTenor

(* Arbitrary inputs: also a negative or zero weight, a missing horizon, a  *)
(* zero or negative tenor.                                                 *)
LooseWeightValues == {-20, 0, 40}
LooseTenorValues == (0 - 1)..MaxTenor

(* ------------------------------------------------------------------ *)
(* Exact rationals <<n, d>>, d > 0, in lowest terms                    *)
(* ------------------------------------------------------------------ *)
Abs(i) == IF i < 0 THEN 0 - i ELSE i

RECURSIVE GCD(_, _)
GCD(a, b) == IF b = 0 THEN a ELSE GCD(b, a % b)

Rat(n, d) ==
    IF n = 0 THEN <<0, 1>>
    ELSE LET g == GCD(Abs(n), Abs(d))
             s == IF d < 0 THEN 0 - 1 ELSE 1
         IN  <<(s * n) \div g, (s * d) \div g>>

RZero == <<0, 1>>
ROne == <<1, 1>>
RInt(i) == <<i, 1>>
RAdd(p, q) ==
    IF p[1] = 0 THEN q
    ELSE IF q[1] = 0 THEN p
    ELSE IF p[2] = q[2] THEN Rat(p[1] + q[1], p[2])
    ELSE LET g == GCD(p[2], q[2])
         IN  Rat(p[1] * (q[2] \div g) + q[1] * (p[2] \div g), (p[2] \div g) * q[2])
RNeg(p) == <<0 - p[1], p[2]>>
RSub(p, q) == RAdd(p, RNeg(q))
RMul(p, q) ==
    IF p[1] = 0 \/ q[1] = 0 THEN RZero
    ELSE IF p = ROne THEN q
    ELSE IF q = ROne THEN p
    ELSE LET g1 == GCD(Abs(p[1]), q[2])
             g2 == GCD(Abs(q[1]), p[2])
         IN  <<(p[1] \div g1) * (q[1] \div g2), (p[2] \div g2) * (q[2] \div g1)>>
RDiv(p, q) == RMul(p, IF q[1] < 0 THEN <<0 - q[2], 0 - q[1]>> ELSE <<q[2], q[1]>>)
RLess(p, q) == p[1] * q[2] < q[1] * p[2]
RLeq(p, q) == p[1] * q[2] <= q[1] * p[2]
RIsZero(p) == p[1] = 0
RAbs(p) == <<Abs(p[1]), p[2]>>

RECURSIVE RSum(_)
RSum(s) == IF s = <<>> THEN RZero ELSE RAdd(s[1], RSum(Tail(s)))

(* sum of f[x] over the finite set S, f rational-valued *)
RECURSIVE RSumOver(_, _)
RSumOver(S, f) ==
    IF S = {} THEN RZero
    ELSE LET x == CHOOSE y \in S : TRUE
         IN  RAdd(f[x], RSumOver(S \ {x}, f))

Dot(u, v) == RSum([i \in DOMAIN u |-> RMul(u[i], v[i])])

(* A sequence written as a function [i \in 1..n |-> e] is kept unevaluated *)
(* by TLC; concatenation turns it into an explicit tuple, evaluated once.  *)
Tuple(s) == s \o <<>>


(* ------------------------------------------------------------------ *)
(* _normalise_weights                                                  *)
(* ------------------------------------------------------------------ *)
(* faulty variant: every non-zero weight is kept *)
NonZeroBuckets(values) == {b \in DOMAIN values : values[b] # 0}

PositiveBuckets(values) == {b \in DOMAIN values : values[b] > 0}

RECURSIVE IntSumOver(_, _)
IntSumOver(S, f) ==
    IF S = {} THEN 0
    ELSE LET x == CHOOSE y \in S : TRUE
         IN  f[x] + IntSumOver(S \ {x}, f)

(* faulty variant: the total runs over every weight, positive or not *)
WeightTotalAll(values) == IntSumOver(DOMAIN values, values)

(* line 39: the total of the weights kept by line 35 *)
WeightTotal(values) == IntSumOver(PositiveBuckets(values), values)

(* faulty variant: weights read as percentages, weight / 100 *)
NormaliseWeightsPercent(values) ==
    [b \in {c \in DOMAIN values : values[c] > 0} |-> Rat(values[b], 100)]

(* line 45: weight / total over the positive weights only *)
NormaliseWeights(values) ==
    [b \in PositiveBuckets(values) |-> Rat(values[b], WeightTotal(values))]

(* ------------------------------------------------------------------ *)
(* _sorted_buckets                                                     *)
(* ------------------------------------------------------------------ *)
MissingHorizons(weights, horizons) == {b \in DOMAIN weights : b \notin DOMAIN horizons}

(* the sort key (horizons[bucket], bucket) *)
BucketKeyLess(a, b, horizons) ==
    \/ horizons[a] < horizons[b]
    \/ /\ horizons[a] = horizons[b]
       /\ NameIndex(BucketNames, a) < NameIndex(BucketNames, b)

RECURSIVE SortBucketSet(_, _)
SortBucketSet(S, horizons) ==
    IF S = {} THEN <<>>
    ELSE LET first == CHOOSE a \in S : \A b \in S \ {a} : BucketKeyLess(a, b, horizons)
         IN  <<first>> \o SortBucketSet(S \ {first}, horizons)

SortedBuckets(weights, horizons) == SortBucketSet(DOMAIN weights, horizons)

(* ------------------------------------------------------------------ *)
(* _tenors_for_bucket                                                  *)
(* ------------------------------------------------------------------ *)
Min(a, b) == IF a < b THEN a ELSE b

(* faulty variant: the test tenor_value <= 0.0 of lines 77-78 is left out *)
OwnSleevesUnsigned(bucket, tenors) ==
    {s \in Range(SleeveKeys) : <<bucket, s>> \in DOMAIN tenors}

(* lines 71-78: the entries of this bucket that are not skipped *)
OwnSleeves(bucket, tenors) ==
    {s \in Range(SleeveKeys) : <<bucket, s>> \in DOMAIN tenors /\ tenors[<<bucket, s>>] > 0}

(* faulty variant: the test of lines 79-82 is left out *)
TenorExceedsHorizonIgnored(bucket, horizons, tenors) == FALSE

(* lines 79-82 *)
TenorExceedsHorizon(bucket, horizons, tenors) ==
    \E s \in OwnSleeves(bucket, tenors) : tenors[<<bucket, s>>] > horizons[bucket]

(* faulty variant: the bucket's own tenor replaces the one carried over *)
TenorsForBucketOwnWins(bucket, tenors, previous) ==
    LET own == OwnSleeves(bucket, tenors)
    IN  [s \in (DOMAIN previous) \cup own |->
            IF s \notin own THEN previous[s] ELSE tenors[<<bucket, s>>]]

(* faulty variant: the sleeves of the previous bucket are not copied *)
TenorsForBucketOwnOnly(bucket, tenors, previous) ==
    [s \in OwnSleeves(bucket, tenors) |-> tenors[<<bucket, s>>]]

(* lines 69, 83-87: previous sleeves carried forward, own tenors merged by min *)
TenorsForBucket(bucket, tenors, previous) ==
    LET own == OwnSleeves(bucket, tenors)
    IN  [s \in (DOMAIN previous) \cup own |->
            IF s \notin own THEN previous[s]
            ELSE IF s \in DOMAIN previous
                 THEN Min(previous[s], tenors[<<bucket, s>>])
                 ELSE tenors[<<bucket, s>>]]

(* The loop of lines 71-87 over tenors.items() in the order the dict   *)
(* yields them: order is a sequence of the keys of tenors, available   *)
(* the dict built so far.  The error is "" while nothing is raised,    *)
(* and quoted is the tenor that the message of lines 80-82 quotes.     *)
(* faulty variant: a key of another bucket ends the loop (break for continue) *)
RECURSIVE TenorsInOrderStopping(_, _, _, _, _, _)
TenorsInOrderStopping(bucket, horizons, tenors, order, i, available) ==
    IF i > Len(order) THEN [error |-> "", quoted |-> 0, available |-> available]
    ELSE LET sleeve == order[i][2]
             tenor == tenors[order[i]]
         IN  IF order[i][1] # bucket
             THEN [error |-> "", quoted |-> 0, available |-> available]
             ELSE IF tenor <= 0
             THEN TenorsInOrderStopping(bucket, horizons, tenors, order, i + 1, available)
             ELSE IF tenor > horizons[bucket]
             THEN [error |-> "Tenor exceeds horizon", quoted |-> tenor, available |-> <<>>]
             ELSE TenorsInOrderStopping(bucket, horizons, tenors, order, i + 1,
                      (sleeve :> (IF sleeve \in DOMAIN available
                                  THEN Min(available[sleeve], tenor)
                                  ELSE tenor)) @@ available)

RECURSIVE TenorsInOrder(_, _, _, _, _, _)
TenorsInOrder(bucket, horizons, tenors, order, i, available) ==
    IF i > Len(order) THEN [error |-> "", quoted |-> 0, available |-> available]
    ELSE LET sleeve == order[i][2]
             tenor == tenors[order[i]]
         IN  IF order[i][1] # bucket
             THEN TenorsInOrder(bucket, horizons, tenors, order, i + 1, available)
             ELSE IF tenor <= 0
             THEN TenorsInOrder(bucket, horizons, tenors, order, i + 1, available)
             ELSE IF tenor > horizons[bucket]
             THEN [error |-> "Tenor exceeds horizon", quoted |-> tenor, available |-> <<>>]
             ELSE TenorsInOrder(bucket, horizons, tenors, order, i + 1,
                      (sleeve :> (IF sleeve \in DOMAIN available
                                  THEN Min(available[sleeve], tenor)
                                  ELSE tenor)) @@ available)

(* lines 68-92 for one iteration order of tenors *)
TenorsForBucketInOrder(bucket, horizons, tenors, order, previous) ==
    LET looped == TenorsInOrder(bucket, horizons, tenors, order, 1, previous)
    IN  IF looped.error = "" /\ DOMAIN looped.available = {}
        THEN [error |-> "No sleeves with tenor <= horizon found", quoted |-> 0,
              available |-> <<>>]
        ELSE looped

(* faulty variant: the test of lines 89-90 is left out *)
NoSleevesIgnored(available) == FALSE

(* lines 89-90 *)
NoSleeves(available) == DOMAIN available = {}

(* faulty variant: the items of the bucket are taken in descending *)
(* name order                                                      *)
RECURSIVE SleeveEntriesDescending(_, _, _)
SleeveEntriesDescending(bucket, sleeves, i) ==
    IF i > Len(SleeveKeys) THEN <<>>
    ELSE SleeveEntriesDescending(bucket, sleeves, i + 1) \o
         (IF SleeveKeys[i] \in DOMAIN sleeves
          THEN <<<<bucket, SleeveKeys[i], sleeves[SleeveKeys[i]]>>>>
          ELSE <<>>)

(* ------------------------------------------------------------------ *)
(* variables, lines 120-130                                            *)
(* ------------------------------------------------------------------ *)
(* sorted(sleeves.items()): the sleeves of a bucket in name order *)
RECURSIVE SleeveEntries(_, _, _)
SleeveEntries(bucket, sleeves, i) ==
    IF i > Len(SleeveKeys) THEN <<>>
    ELSE (IF SleeveKeys[i] \in DOMAIN sleeves
          THEN <<<<bucket, SleeveKeys[i], sleeves[SleeveKeys[i]]>>>>
          ELSE <<>>) \o SleeveEntries(bucket, sleeves, i + 1)

RECURSIVE BuildVariables(_, _)
BuildVariables(ordered, bst) ==
    IF ordered = <<>> THEN <<>>
    ELSE SleeveEntries(ordered[1], bst[ordered[1]], 1) \o BuildVariables(Tail(ordered), bst)

(* line 126 *)
InvalidTenor(vars_) == \E i \in DOMAIN vars_ : vars_[i][3] <= 0

(* ------------------------------------------------------------------ *)
(* constraint rows, lines 135-196                                      *)
(* ------------------------------------------------------------------ *)
(* lines 141-147 *)
BucketRows(ordered, vars_) ==
    [k \in DOMAIN ordered |-> [i \in DOMAIN vars_ |-> IF vars_[i][1] = ordered[k] THEN 1 ELSE 0]]

BucketRhs(ordered, normalised_) == [k \in DOMAIN ordered |-> normalised_[ordered[k]]]

(* line 151 *)
RECURSIVE FilterSeq(_, _)
FilterSeq(names, S) ==
    IF names = <<>> THEN <<>>
    ELSE (IF names[1] \in S THEN <<names[1]>> ELSE <<>>) \o FilterSeq(Tail(names), S)

(* faulty variant: every sleeve counts as present, with or without variables *)
SleevesPresentAll(vars_) == SleeveNames

(* faulty variant: only the sleeve of the first variable is collected *)
SleevesPresentFirstOnly(vars_) == <<vars_[1][2]>>

SleevesPresent(vars_) == FilterSeq(SleeveKeys, {vars_[i][2] : i \in DOMAIN vars_})

(* lines 152-163: one row per sleeve other than the first present one *)
RiskRows(vars_) ==
    LET present == SleevesPresent(vars_)
    IN  IF Len(present) <= 1 THEN <<>>
        ELSE [k \in 1..(Len(present) - 1) |->
                [i \in DOMAIN vars_ |->
                    IF vars_[i][2] = present[k + 1] THEN vars_[i][3]
                    ELSE IF vars_[i][2] = present[1] THEN 0 - vars_[i][3]
                    ELSE 0]]

(* lines 170-175: indices of a (sleeve, tenor) group held in a currency *)
GroupIndices(vars_, currencies, i, cur) ==
    {j \in DOMAIN vars_ : /\ vars_[j][2] = vars_[i][2]
                          /\ vars_[j][3] = vars_[i][3]
                          /\ currencies[vars_[j][1]] = cur}

GroupCurrencies(vars_, currencies, i) ==
    FilterSeq(CurrencyNames, {c \in Currencies : GroupIndices(vars_, currencies, i, c) # {}})

(* a group is keyed by the first variable that belongs to it *)
IsGroupLeader(vars_, i) ==
    \A j \in 1..(i - 1) : ~(vars_[j][2] = vars_[i][2] /\ vars_[j][3] = vars_[i][3])

(* faulty variant: no currency-balancing row is built *)
GroupRowsNone(vars_, currencies, i) == <<>>

(* lines 177-196 for the group led by variable i *)
GroupRows(vars_, currencies, i) ==
    LET cs == GroupCurrencies(vars_, currencies, i)
    IN  IF Len(cs) <= 1 THEN <<>>
        ELSE [k \in 1..(Len(cs) - 1) |->
                [j \in DOMAIN vars_ |->
                    IF j \in GroupIndices(vars_, currencies, i, cs[k + 1]) THEN 1
                    ELSE IF j \in GroupIndices(vars_, currencies, i, cs[1]) THEN 0 - 1
                    ELSE 0]]

RECURSIVE CurrencyRowsFrom(_, _, _)
CurrencyRowsFrom(vars_, currencies, i) ==
    IF i > Len(vars_) THEN <<>>
    ELSE (IF IsGroupLeader(vars_, i) THEN GroupRows(vars_, currencies, i) ELSE <<>>)
         \o CurrencyRowsFrom(vars_, currencies, i + 1)

CurrencyRows(vars_, currencies) == CurrencyRowsFrom(vars_, currencies, 1)

BuildRows(ordered, vars_, currencies) ==
    BucketRows(ordered, vars_) \o RiskRows(vars_) \o CurrencyRows(vars_, currencies)

BuildRhs(ordered, vars_, currencies, normalised_) ==
    BucketRhs(ordered, normalised_)
    \o [k \in 1..(Len(RiskRows(vars_)) + Len(CurrencyRows(vars_, currencies))) |-> RZero]

(* ------------------------------------------------------------------ *)
(* the solve, lines 202-262                                            *)
(* ------------------------------------------------------------------ *)
IntDot(u, v) == IntSumOver(DOMAIN u, [i \in DOMAIN u |-> u[i] * v[i]])

(* lines 235-240, the 1e-12 on the diagonal taken at its limit 0 *)
Gram(rows_) ==
    Tuple([i \in DOMAIN rows_ |-> Tuple([j \in DOMAIN rows_ |-> IntDot(rows_[i], rows_[j])])])

(* line 204 *)
Augmented(matrix, vector) ==
    Tuple([i \in DOMAIN matrix |->
        Tuple([j \in 1..(Len(matrix) + 1) |->
            IF j <= Len(matrix) THEN RInt(matrix[i][j]) ELSE vector[i]])])

(* line 207: the first row of largest absolute value in the column *)
PivotRow(aug, col, from) ==
    LET cand == {k \in from..Len(aug) : ~RIsZero(aug[k][col])}
        best == {k \in cand : \A j \in cand : RLeq(RAbs(aug[j][col]), RAbs(aug[k][col]))}
    IN  IF cand = {} THEN 0 ELSE CHOOSE k \in best : \A j \in best : k <= j

(* lines 211-225 for one column: swap, scale the pivot row, clear the column *)
EliminateColumn(aug, col, r, p) ==
    LET swapped == [aug EXCEPT ![r] = aug[p], ![p] = aug[r]]
        pivot_value == swapped[r][col]
        scaled == Tuple([j \in DOMAIN swapped[r] |-> RDiv(swapped[r][j], pivot_value)])
    IN  Tuple([k \in DOMAIN swapped |->
            IF k = r THEN scaled
            ELSE IF RIsZero(swapped[k][col]) THEN swapped[k]
            ELSE Tuple([j \in DOMAIN scaled |->
                    RSub(swapped[k][j], RMul(swapped[k][col], scaled[j]))])])

(* lines 206-227.  A column whose remaining entries are all 0 has, in the   *)
(* program, a pivot of the order of the 1e-12 regularisation; at the limit *)
(* its multiplier is 0 and the column is passed over.                      *)
RECURSIVE SolveFrom(_, _, _, _)
SolveFrom(aug, col, r, pivots) ==
    IF col > Len(aug) THEN [aug |-> aug, pivots |-> pivots]
    ELSE LET p == PivotRow(aug, col, r)
         IN  IF p = 0 THEN SolveFrom(aug, col + 1, r, pivots)
             ELSE SolveFrom(EliminateColumn(aug, col, r, p), col + 1, r + 1,
                            Append(pivots, col))

SolveNormalEquations(matrix, vector) ==
    LET done == SolveFrom(Augmented(matrix, vector), 1, 1, <<>>)
    IN  Tuple([c \in DOMAIN matrix |->
            IF \E k \in DOMAIN done.pivots : done.pivots[k] = c
            THEN done.aug[CHOOSE k \in DOMAIN done.pivots : done.pivots[k] = c][Len(matrix) + 1]
            ELSE RZero])

(* lines 231-250 *)
SolveWithMultipliers(rows_, rhs_, num_vars) ==
    LET multipliers == SolveNormalEquations(Gram(rows_), rhs_)
    IN  Tuple([column \in 1..num_vars |->
            RSum([row_index \in DOMAIN rows_ |->
                    RMul(RInt(rows_[row_index][column]), multipliers[row_index])])])

(* lines 254-258: predicted - target of one row *)
Residual(row, target, solution_) ==
    RSub(RSum([i \in DOMAIN row |-> RMul(RInt(row[i]), solution_[i])]), target)

(* lines 260-262: residual_norm > 1e-8 *)
ResidualTooLarge(rows_, rhs_, solution_) ==
    \E k \in DOMAIN rows_ : ~RIsZero(Residual(rows_[k], rhs_[k], solution_))

(* ------------------------------------------------------------------ *)
(* validation and aggregation, lines 264-311                           *)
(* ------------------------------------------------------------------ *)
(* lines 264-265: min(solution) < -1e-9 *)
HasNegative(solution_) == \E i \in DOMAIN solution_ : RLess(solution_[i], RZero)

(* line 268 *)
Clamp(solution_) ==
    Tuple([i \in DOMAIN solution_ |-> IF RLess(RZero, solution_[i]) THEN solution_[i] ELSE RZero])

VarIndices(vars_, bucket) == {i \in DOMAIN vars_ : vars_[i][1] = bucket}
SleeveIndices(vars_, sleeve) == {i \in DOMAIN vars_ : vars_[i][2] = sleeve}

(* lines 271-275 *)
BucketTotal(vars_, solution_, bucket) == RSumOver(VarIndices(vars_, bucket), solution_)

BucketTargetMissed(ordered, vars_, solution_, normalised_) ==
    \E k \in DOMAIN ordered :
        BucketTotal(vars_, solution_, ordered[k]) # normalised_[ordered[k]]

(* lines 279-281: exposure of a sleeve, tenor * value summed over its variables *)
Exposure(vars_, solution_, sleeve) ==
    RSumOver(SleeveIndices(vars_, sleeve),
             [i \in DOMAIN vars_ |-> RMul(RInt(vars_[i][3]), solution_[i])])

(* lines 278-286 *)
ExposuresDiffer(vars_, solution_) ==
    LET present == SleevesPresent(vars_)
    IN  /\ Len(present) > 1
        /\ \E s \in Range(present) :
              Exposure(vars_, solution_, s) # Exposure(vars_, solution_, vars_[1][2])

(* faulty variant: the test of lines 293-294 is left out *)
KeptIndicesAll(solution_) == DOMAIN solution_

(* lines 292-297: the variables whose value exceeds the tolerance *)
KeptIndices(solution_) == {i \in DOMAIN solution_ : RLess(RZero, solution_[i])}

(* faulty variant: the aggregates are overwritten, not accumulated *)
BuildResultOverwriting(vars_, solution_) ==
    LET kept == KeptIndices(solution_)
        keys == {<<vars_[i][1], vars_[i][2]>> : i \in kept}
        index_of(key) == CHOOSE i \in kept : <<vars_[i][1], vars_[i][2]>> = key
        last(S) == CHOOSE i \in S : \A j \in S : j <= i
    IN  [allocations |-> [key \in keys |-> solution_[index_of(key)]],
         by_bucket |-> [b \in {vars_[i][1] : i \in kept} |->
                          solution_[last(kept \cap VarIndices(vars_, b))]],
         by_sleeve |-> [sl \in {vars_[i][2] : i \in kept} |->
                          solution_[last(kept \cap SleeveIndices(vars_, sl))]]]

BuildResult(vars_, solution_) ==
    LET kept == KeptIndices(solution_)
        keys == {<<vars_[i][1], vars_[i][2]>> : i \in kept}
        index_of(key) == CHOOSE i \in kept : <<vars_[i][1], vars_[i][2]>> = key
    IN  [allocations |-> [key \in keys |-> solution_[index_of(key)]],
         by_bucket |-> [b \in {vars_[i][1] : i \in kept} |->
                          RSumOver(kept \cap VarIndices(vars_, b), solution_)],
         by_sleeve |-> [sl \in {vars_[i][2] : i \in kept} |->
                          RSumOver(kept \cap SleeveIndices(vars_, sl), solution_)]]

(* line 299 *)
TotalAllocated(result_) == RSumOver(DOMAIN result_.by_bucket, result_.by_bucket)

(* ------------------------------------------------------------------ *)
(* one call of run_risk_equal_optimization                             *)
(* ------------------------------------------------------------------ *)
VARIABLES
    spec,                  \* the ProblemSpec passed by the caller
    pc,                    \* position of the call
    normalised,            \* line 100
    ordered_buckets,       \* line 101
    previous_sleeves,      \* line 105
    bucket_sleeve_tenors,  \* line 106
    variables,             \* line 120
    rows,                  \* line 136
    rhs,                   \* line 137
    solution,              \* lines 252, 268
    result,                \* the RiskOptimizationResult returned
    error,                 \* the ValueError raised, "" if none
    parked                 \* the frame of the call that is not running, <<>> if none

(* DistributionDialog._build_plan, app.py *)
VARIABLES
    allocations,           \* what repo.get_all_allocations() returns
    amount,                \* argument of _build_plan
    time_horizon,          \* argument of _build_plan
    currency_filter,       \* argument of _build_plan
    plan_rows,             \* app.py line 2088
    totals,                \* app.py line 2163
    currency_totals,       \* app.py line 2170
    plan_pc                \* position of the call of _build_plan

(* Database, moneyalloc/database.py *)
VARIABLES
    table,                 \* the rows of the allocations table
    lastrowid,             \* the largest id the table has ever held
    foreign_keys,          \* whether the connections enforce foreign keys
    deleted                \* the id of the row that delete_allocation removed, when that was the last call

risk_vars == <<spec, pc, normalised, ordered_buckets, previous_sleeves,
               bucket_sleeve_tenors, variables, rows, rhs, solution, result, error, parked>>

plan_vars == <<allocations, amount, time_horizon, currency_filter,
               plan_rows, totals, currency_totals, plan_pc>>

db_vars == <<table, lastrowid, foreign_keys, deleted>>

vars == <<risk_vars, plan_vars, db_vars>>

Empty == <<>>

(* tenors dicts with at most n (bucket, sleeve) keys *)
TenorMaps(values, n) ==
    UNION {[D -> values] :
             D \in {E \in SUBSET (Buckets \X Sleeves) : Cardinality(E) <= n}}

(* Swapping the two currency names changes no outcome: bucket A is held *)
(* in USD and the others in either currency.                            *)
CurrencyMaps == {m \in [Buckets -> Currencies] : m["A"] = "USD"}

(* calls with arbitrary inputs *)
LooseProblemSpecs ==
    [bucket_weights : [Buckets -> LooseWeightValues],
     bucket_horizons : UNION {[D -> HorizonValues] : D \in SUBSET Buckets},
     tenors : TenorMaps(LooseTenorValues, MaxLooseEntries),
     bucket_currencies : CurrencyMaps]

(* calls with well-formed inputs *)
ProblemSpecs ==
    [bucket_weights : [Buckets -> WeightValues],
     bucket_horizons : [Buckets -> HorizonValues],
     tenors : TenorMaps(TenorValues, MaxTenorEntries),
     bucket_currencies : CurrencyMaps]

Fresh ==
    /\ pc = "start"
    /\ normalised = Empty
    /\ ordered_buckets = Empty
    /\ previous_sleeves = Empty
    /\ bucket_sleeve_tenors = Empty
    /\ variables = Empty
    /\ rows = Empty
    /\ rhs = Empty
    /\ solution = Empty
    /\ result = Empty
    /\ error = ""

(* calls whose tenors dict carries any strings as sleeves, the weights *)
(* being 40 and 60                                                    *)
OpenProblemSpecs ==
    [bucket_weights : {[b \in Buckets |-> IF b = "A" THEN 40 ELSE 60]},
     bucket_horizons : [Buckets -> HorizonValues],
     tenors : UNION {[D -> TenorValues] :
                       D \in {E \in SUBSET (Buckets \X Range(SleeveKeys)) :
                                 Cardinality(E) <= MaxOpenEntries}},
     bucket_currencies : CurrencyMaps]

(* no call of run_risk_equal_optimization is under way *)
RiskIdle ==
    /\ spec = Empty
    /\ pc = "idle"
    /\ normalised = Empty
    /\ ordered_buckets = Empty
    /\ previous_sleeves = Empty
    /\ bucket_sleeve_tenors = Empty
    /\ variables = Empty
    /\ rows = Empty
    /\ rhs = Empty
    /\ solution = Empty
    /\ result = Empty
    /\ error = ""
    /\ parked = Empty

(* no call of _build_plan is under way *)
PlanIdle ==
    /\ allocations = Empty
    /\ amount = 0
    /\ time_horizon = "None"
    /\ currency_filter = Empty
    /\ plan_rows = Empty
    /\ totals = Empty
    /\ currency_totals = Empty
    /\ plan_pc = "idle"

(* no Database is open *)
DbIdle ==
    /\ table = Empty
    /\ lastrowid = 0
    /\ foreign_keys = FALSE
    /\ deleted = {}

(* one call, no other call beside it *)
Init == spec \in LooseProblemSpecs /\ Fresh /\ parked = Empty /\ PlanIdle /\ DbIdle

InitSolve == spec \in ProblemSpecs /\ Fresh /\ parked = Empty /\ PlanIdle /\ DbIdle

InitOpen == spec \in OpenProblemSpecs /\ Fresh /\ parked = Empty /\ PlanIdle /\ DbIdle

Raise(message) ==
    /\ pc' = "raised"
    /\ error' = message

(* faulty variant: the weights are normalised in place, in the caller's dict *)
NormaliseInPlace ==
    /\ pc = "start"
    /\ IF PositiveBuckets(spec.bucket_weights) = {}
       THEN Raise("At least one positive bucket weight is required")
            /\ UNCHANGED <<spec, normalised>>
       ELSE IF WeightTotal(spec.bucket_weights) <= 0
       THEN Raise("Bucket weights must sum to a positive value")
            /\ UNCHANGED <<spec, normalised>>
       ELSE /\ normalised' = NormaliseWeights(spec.bucket_weights)
            /\ spec' = [spec EXCEPT !.bucket_weights = NormaliseWeights(spec.bucket_weights)]
            /\ pc' = "normalised"
            /\ UNCHANGED error
    /\ UNCHANGED <<parked, ordered_buckets, previous_sleeves, bucket_sleeve_tenors,
                   variables, rows, rhs, solution, result>>
    /\ UNCHANGED <<plan_vars, db_vars>>

(* line 100 *)
Normalise ==
    /\ pc = "start"
    /\ IF PositiveBuckets(spec.bucket_weights) = {}
       THEN Raise("At least one positive bucket weight is required") /\ UNCHANGED normalised
       ELSE IF WeightTotal(spec.bucket_weights) <= 0
       THEN Raise("Bucket weights must sum to a positive value") /\ UNCHANGED normalised
       ELSE /\ normalised' = NormaliseWeights(spec.bucket_weights)
            /\ pc' = "normalised"
            /\ UNCHANGED error
    /\ UNCHANGED <<spec, parked, ordered_buckets, previous_sleeves, bucket_sleeve_tenors,
                   variables, rows, rhs, solution, result>>
    /\ UNCHANGED <<plan_vars, db_vars>>

(* faulty variant: a bucket without a horizon is left out, not reported *)
SortBucketsLenient ==
    /\ pc = "normalised"
    /\ LET kept == [b \in DOMAIN normalised \cap DOMAIN spec.bucket_horizons |-> normalised[b]]
       IN  IF SortedBuckets(kept, spec.bucket_horizons) = <<>>
           THEN Raise("No buckets supplied") /\ UNCHANGED ordered_buckets
           ELSE /\ ordered_buckets' = SortedBuckets(kept, spec.bucket_horizons)
                /\ pc' = "discovering"
                /\ UNCHANGED error
    /\ UNCHANGED <<spec, parked, normalised, previous_sleeves, bucket_sleeve_tenors,
                   variables, rows, rhs, solution, result>>
    /\ UNCHANGED <<plan_vars, db_vars>>

(* lines 101-106 *)
SortBuckets ==
    /\ pc = "normalised"
    /\ IF MissingHorizons(normalised, spec.bucket_horizons) # {}
       THEN Raise("Missing horizon information") /\ UNCHANGED ordered_buckets
       ELSE IF SortedBuckets(normalised, spec.bucket_horizons) = <<>>
       THEN Raise("No buckets supplied") /\ UNCHANGED ordered_buckets
       ELSE /\ ordered_buckets' = SortedBuckets(normalised, spec.bucket_horizons)
            /\ pc' = "discovering"
            /\ UNCHANGED error
    /\ UNCHANGED <<spec, parked, normalised, previous_sleeves, bucket_sleeve_tenors,
                   variables, rows, rhs, solution, result>>
    /\ UNCHANGED <<plan_vars, db_vars>>

(* lines 108-118, one pass of the loop *)
DiscoverBucket ==
    /\ pc = "discovering"
    /\ Cardinality(DOMAIN bucket_sleeve_tenors) < Len(ordered_buckets)
    /\ LET bucket == ordered_buckets[Cardinality(DOMAIN bucket_sleeve_tenors) + 1]
           sleeves == TenorsForBucket(bucket, spec.tenors, previous_sleeves)
       IN  IF TenorExceedsHorizon(bucket, spec.bucket_horizons, spec.tenors)
           THEN Raise("Tenor exceeds horizon")
                /\ UNCHANGED <<bucket_sleeve_tenors, previous_sleeves>>
           ELSE IF NoSleeves(sleeves)
           THEN Raise("No sleeves with tenor <= horizon found")
                /\ UNCHANGED <<bucket_sleeve_tenors, previous_sleeves>>
           ELSE /\ bucket_sleeve_tenors' = bucket_sleeve_tenors @@ (bucket :> sleeves)
                /\ previous_sleeves' = sleeves
                /\ UNCHANGED <<pc, error>>
    /\ UNCHANGED <<spec, parked, normalised, ordered_buckets, variables, rows, rhs, solution, result>>
    /\ UNCHANGED <<plan_vars, db_vars>>

(* lines 120-133 *)
CollectVariables ==
    /\ pc = "discovering"
    /\ Cardinality(DOMAIN bucket_sleeve_tenors) = Len(ordered_buckets)
    /\ LET built == BuildVariables(ordered_buckets, bucket_sleeve_tenors)
       IN  IF InvalidTenor(built)
           THEN Raise("Invalid tenor") /\ UNCHANGED variables
           ELSE IF built = <<>>
           THEN Raise("No investable sleeves supplied") /\ UNCHANGED variables
           ELSE /\ variables' = built
                /\ pc' = "variables"
                /\ UNCHANGED error
    /\ UNCHANGED <<spec, parked, normalised, ordered_buckets, previous_sleeves,
                   bucket_sleeve_tenors, rows, rhs, solution, result>>
    /\ UNCHANGED <<plan_vars, db_vars>>

(* lines 135-200 *)
BuildConstraints ==
    /\ pc = "variables"
    /\ LET built == BuildRows(ordered_buckets, variables, spec.bucket_currencies)
       IN  IF Len(built) = 0
           THEN Raise("No constraints supplied") /\ UNCHANGED <<rows, rhs>>
           ELSE /\ rows' = built
                /\ rhs' = BuildRhs(ordered_buckets, variables, spec.bucket_currencies,
                                   normalised)
                /\ pc' = "constraints"
                /\ UNCHANGED error
    /\ UNCHANGED <<spec, parked, normalised, ordered_buckets, previous_sleeves,
                   bucket_sleeve_tenors, variables, solution, result>>
    /\ UNCHANGED <<plan_vars, db_vars>>

(* lines 252-262 *)
Solve ==
    /\ pc = "constraints"
    /\ LET solved == SolveWithMultipliers(rows, rhs, Len(variables))
       IN  IF ResidualTooLarge(rows, rhs, solved)
           THEN Raise("Unable to equalise risk") /\ UNCHANGED solution
           ELSE /\ solution' = solved
                /\ pc' = "solved"
                /\ UNCHANGED error
    /\ UNCHANGED <<spec, parked, normalised, ordered_buckets, previous_sleeves,
                   bucket_sleeve_tenors, variables, rows, rhs, result>>
    /\ UNCHANGED <<plan_vars, db_vars>>

(* faulty variant: lines 264-268 are left out, the solution is checked as solved *)
ValidateUnchecked ==
    /\ pc = "solved"
    /\ IF BucketTargetMissed(ordered_buckets, variables, solution, normalised)
       THEN Raise("Unable to satisfy bucket allocation targets") /\ UNCHANGED solution
       ELSE IF ExposuresDiffer(variables, solution)
       THEN Raise("Risk exposures could not be equalised") /\ UNCHANGED solution
       ELSE /\ pc' = "validated"
            /\ UNCHANGED <<solution, error>>
    /\ UNCHANGED <<spec, parked, normalised, ordered_buckets, previous_sleeves,
                   bucket_sleeve_tenors, variables, rows, rhs, result>>
    /\ UNCHANGED <<plan_vars, db_vars>>

(* lines 264-286 *)
Validate ==
    /\ pc = "solved"
    /\ IF HasNegative(solution)
       THEN Raise("Optimisation produced negative allocations") /\ UNCHANGED solution
       ELSE IF BucketTargetMissed(ordered_buckets, variables, Clamp(solution), normalised)
       THEN Raise("Unable to satisfy bucket allocation targets") /\ UNCHANGED solution
       ELSE IF ExposuresDiffer(variables, Clamp(solution))
       THEN Raise("Risk exposures could not be equalised") /\ UNCHANGED solution
       ELSE /\ solution' = Clamp(solution)
            /\ pc' = "validated"
            /\ UNCHANGED error
    /\ UNCHANGED <<spec, parked, normalised, ordered_buckets, previous_sleeves,
                   bucket_sleeve_tenors, variables, rows, rhs, result>>
    /\ UNCHANGED <<plan_vars, db_vars>>

(* lines 288-311 *)
Aggregate ==
    /\ pc = "validated"
    /\ LET built == BuildResult(variables, solution)
       IN  IF RLeq(TotalAllocated(built), RZero)
           THEN Raise("Optimisation produced zero allocation") /\ UNCHANGED result
           ELSE /\ result' = built
                /\ pc' = "returned"
                /\ UNCHANGED error
    /\ UNCHANGED <<spec, parked, normalised, ordered_buckets, previous_sleeves,
                   bucket_sleeve_tenors, variables, rows, rhs, solution>>
    /\ UNCHANGED <<plan_vars, db_vars>>

Next ==
    \/ Normalise
    \/ SortBuckets
    \/ DiscoverBucket
    \/ CollectVariables
    \/ BuildConstraints
    \/ Solve
    \/ Validate
    \/ Aggregate

(* calls with arbitrary inputs *)
Spec == Init /\ [][Next]_vars

(* calls with well-formed inputs *)
SpecSolve == InitSolve /\ [][Next]_vars

(* calls whose tenors dict carries any strings as sleeves *)
SpecOpen == InitOpen /\ [][Next]_vars

Returned == pc = "returned"
Raised == pc = "raised"

(* ------------------------------------------------------------------ *)
(* two calls, each with a frame of its own                             *)
(* ------------------------------------------------------------------ *)
(* the argument and the local variables of the running call *)
Frame ==
    [spec |-> spec, pc |-> pc, normalised |-> normalised,
     ordered_buckets |-> ordered_buckets, previous_sleeves |-> previous_sleeves,
     bucket_sleeve_tenors |-> bucket_sleeve_tenors, variables |-> variables,
     rows |-> rows, rhs |-> rhs, solution |-> solution, result |-> result,
     error |-> error]

(* the frame of a call that has not taken a step *)
FreshFrame(spec_) ==
    [spec |-> spec_, pc |-> "start", normalised |-> Empty,
     ordered_buckets |-> Empty, previous_sleeves |-> Empty,
     bucket_sleeve_tenors |-> Empty, variables |-> Empty,
     rows |-> Empty, rhs |-> Empty, solution |-> Empty, result |-> Empty,
     error |-> ""]

(* faulty variant: previous_sleeves is kept at module level, one for all calls *)
SwitchSharingPrevious ==
    /\ parked # Empty
    /\ parked' = Frame
    /\ spec' = parked.spec
    /\ pc' = parked.pc
    /\ normalised' = parked.normalised
    /\ ordered_buckets' = parked.ordered_buckets
    /\ bucket_sleeve_tenors' = parked.bucket_sleeve_tenors
    /\ variables' = parked.variables
    /\ rows' = parked.rows
    /\ rhs' = parked.rhs
    /\ solution' = parked.solution
    /\ result' = parked.result
    /\ error' = parked.error
    /\ UNCHANGED previous_sleeves
    /\ UNCHANGED <<plan_vars, db_vars>>

(* the interpreter leaves the running call and resumes the other one: *)
(* every local of lines 100-311 belongs to the frame of its call      *)
Switch ==
    /\ parked # Empty
    /\ parked' = Frame
    /\ spec' = parked.spec
    /\ pc' = parked.pc
    /\ normalised' = parked.normalised
    /\ ordered_buckets' = parked.ordered_buckets
    /\ previous_sleeves' = parked.previous_sleeves
    /\ bucket_sleeve_tenors' = parked.bucket_sleeve_tenors
    /\ variables' = parked.variables
    /\ rows' = parked.rows
    /\ rhs' = parked.rhs
    /\ solution' = parked.solution
    /\ result' = parked.result
    /\ error' = parked.error
    /\ UNCHANGED <<plan_vars, db_vars>>

(* tenors of a call that runs beside another: two of them can exceed *)
(* the shortest horizon                                              *)
CallTenorValues == 1..(MaxTenor + 1)

(* the inputs of a call that runs beside another *)
CallSpecs ==
    [bucket_weights : {[b \in Buckets |-> IF b = "A" THEN 40 ELSE 60]},
     bucket_horizons : [Buckets -> HorizonValues],
     tenors : TenorMaps(CallTenorValues, MaxCallEntries),
     bucket_currencies : CurrencyMaps]

(* the other call is given an equal ProblemSpec, or one of two others: *)
(* one with a sleeve at each bucket, one with no data at all           *)
PeerSpecs(spec_) ==
    {spec_,
     [spec_ EXCEPT !.tenors = (<<"A", "rates">> :> 1) @@ (<<"B", "tips">> :> 1),
                   !.bucket_horizons = [b \in Buckets |-> 1]],
     [spec_ EXCEPT !.tenors = Empty]}

InitCalls ==
    /\ spec \in CallSpecs
    /\ Fresh
    /\ parked \in {FreshFrame(s) : s \in PeerSpecs(spec)}
    /\ PlanIdle
    /\ DbIdle

NextCalls ==
    \/ Next
    \/ Switch

(* two calls whose steps interleave in any order *)
SpecCalls == InitCalls /\ [][NextCalls]_vars

(* ------------------------------------------------------------------ *)
(* run_risk_equal_optimization as a function of its argument           *)
(* ------------------------------------------------------------------ *)
Outcome(result_, error_) == [result |-> result_, error |-> error_]
Failure(message) == Outcome(Empty, message)

(* lines 108-118, the loop from the k-th bucket on *)
RECURSIVE DiscoverFrom(_, _, _, _, _)
DiscoverFrom(spec_, ordered, k, previous, found) ==
    IF k > Len(ordered) THEN [error |-> "", found |-> found]
    ELSE LET bucket == ordered[k]
             sleeves == TenorsForBucket(bucket, spec_.tenors, previous)
         IN  IF TenorExceedsHorizon(bucket, spec_.bucket_horizons, spec_.tenors)
             THEN [error |-> "Tenor exceeds horizon", found |-> found]
             ELSE IF NoSleeves(sleeves)
             THEN [error |-> "No sleeves with tenor <= horizon found", found |-> found]
             ELSE DiscoverFrom(spec_, ordered, k + 1, sleeves, found @@ (bucket :> sleeves))

(* lines 136-311, from the variables on *)
OptimiseVariables(spec_, normalised_, ordered, vars_) ==
    LET rows_ == BuildRows(ordered, vars_, spec_.bucket_currencies)
        rhs_ == BuildRhs(ordered, vars_, spec_.bucket_currencies, normalised_)
        solved == SolveWithMultipliers(rows_, rhs_, Len(vars_))
        built == BuildResult(vars_, Clamp(solved))
    IN  IF Len(rows_) = 0 THEN Failure("No constraints supplied")
        ELSE IF ResidualTooLarge(rows_, rhs_, solved) THEN Failure("Unable to equalise risk")
        ELSE IF HasNegative(solved)
        THEN Failure("Optimisation produced negative allocations")
        ELSE IF BucketTargetMissed(ordered, vars_, Clamp(solved), normalised_)
        THEN Failure("Unable to satisfy bucket allocation targets")
        ELSE IF ExposuresDiffer(vars_, Clamp(solved))
        THEN Failure("Risk exposures could not be equalised")
        ELSE IF RLeq(TotalAllocated(built), RZero)
        THEN Failure("Optimisation produced zero allocation")
        ELSE Outcome(built, "")

(* lines 101-133, from the normalised weights on *)
OptimiseBuckets(spec_, normalised_) ==
    LET ordered == SortedBuckets(normalised_, spec_.bucket_horizons)
        discovered == DiscoverFrom(spec_, ordered, 1, Empty, Empty)
        vars_ == BuildVariables(ordered, discovered.found)
    IN  IF MissingHorizons(normalised_, spec_.bucket_horizons) # {}
        THEN Failure("Missing horizon information")
        ELSE IF ordered = <<>> THEN Failure("No buckets supplied")
        ELSE IF discovered.error # "" THEN Failure(discovered.error)
        ELSE IF InvalidTenor(vars_) THEN Failure("Invalid tenor")
        ELSE IF vars_ = <<>> THEN Failure("No investable sleeves supplied")
        ELSE OptimiseVariables(spec_, normalised_, ordered, vars_)

(* lines 95-311: the result returned or the error raised for a ProblemSpec *)
RunRiskEqualOptimization(spec_) ==
    IF PositiveBuckets(spec_.bucket_weights) = {}
    THEN Failure("At least one positive bucket weight is required")
    ELSE IF WeightTotal(spec_.bucket_weights) <= 0
    THEN Failure("Bucket weights must sum to a positive value")
    ELSE OptimiseBuckets(spec_, NormaliseWeights(spec_.bucket_weights))

Finished == pc \in {"returned", "raised"}

(* ------------------------------------------------------------------ *)
(* DistributionDialog._build_plan, moneyalloc_app/app.py               *)
(* ------------------------------------------------------------------ *)
(* Optional[str] None; Optional[int] None, the ids of the table start *)
(* at 1; a currency_filter of None                                    *)
None == "None"
NoParent == 0
NoFilter == <<>>

(* app.py lines 42-47 *)
UnspecifiedCurrencyAliases == {"UNSPECIFIED", "NONE", "N/A", "NA"}

(* A text is the sequence of the pieces that split(",") gives; <<>> is *)
(* a text of None or "". piece.strip().upper() of the pieces in use:   *)
StripUpper(piece) ==
    CASE piece = " " -> ""
      [] piece = "eur" -> "EUR"
      [] piece = " USD" -> "USD"
      [] piece = "n/a" -> "N/A"
      [] OTHER -> piece

(* app.py lines 1484-1492: the loop over the pieces from piece i on *)
RECURSIVE SeenCodes(_, _, _)
SeenCodes(pieces, i, seen) ==
    IF i > Len(pieces) THEN seen
    ELSE LET upper == StripUpper(pieces[i])
             key == IF upper \in UnspecifiedCurrencyAliases THEN "" ELSE upper
         IN  IF upper = "" \/ key \in Range(seen)
             THEN SeenCodes(pieces, i + 1, seen)
             ELSE SeenCodes(pieces, i + 1, Append(seen, key))

(* app.py lines 1479-1497 *)
ParseCurrencyCodes(raw) ==
    IF raw = <<>> \/ SeenCodes(raw, 1, <<>>) = <<>> THEN <<"">>
    ELSE SeenCodes(raw, 1, <<>>)

(* faulty variant: the codes are not filtered *)
SelectCurrencyCodesUnfiltered(value, filter) == ParseCurrencyCodes(value)

(* app.py lines 2066-2071 *)
SelectCurrencyCodes(value, filter) ==
    IF filter = NoFilter THEN ParseCurrencyCodes(value)
    ELSE FilterSeq(ParseCurrencyCodes(value), filter[1])

(* models.py lines 36-79, on the labels in use *)
CanonicalizeTimeHorizon(value) ==
    CASE value = "1 year" -> "1Y"
      [] value = "1y" -> "1Y"
      [] value = "" -> None
      [] OTHER -> value

(* app.py lines 2054-2061 *)
NormalizeHorizon(value) ==
    IF value = None THEN None ELSE CanonicalizeTimeHorizon(value)

(* normalize_horizon(allocation.time_horizon) or inherited *)
NodeHorizon(allocation, inherited) ==
    IF NormalizeHorizon(allocation.time_horizon) = None THEN inherited
    ELSE NormalizeHorizon(allocation.time_horizon)

(* app.py lines 2019-2024, 2037-2052: an ascending listing of ids (all *)
(* allocations have the same sort_order), the roots and the children   *)
RECURSIVE SortedIds(_)
SortedIds(S) ==
    IF S = {} THEN <<>>
    ELSE LET least == CHOOSE x \in S : \A y \in S : x <= y
         IN  <<least>> \o SortedIds(S \ {least})

Roots(allocs) ==
    {id \in DOMAIN allocs :
        allocs[id].parent_id = NoParent \/ allocs[id].parent_id \notin DOMAIN allocs}

Children(allocs, id) ==
    {child \in DOMAIN allocs :
        allocs[child].parent_id # NoParent /\ allocs[child].parent_id = id}

(* app.py lines 2073-2090 *)
RECURSIVE Contributes(_, _, _, _, _)
Contributes(allocs, id, inherited, horizon, filter) ==
    LET node_horizon == NodeHorizon(allocs[id], inherited)
        has_contributing_child ==
            \E child \in Children(allocs, id) :
                Contributes(allocs, child, node_horizon, horizon, filter)
        currency_codes == SelectCurrencyCodes(allocs[id].currency, filter)
        matches_leaf ==
            /\ allocs[id].include_in_rollup
            /\ ~has_contributing_child
            /\ (horizon = None \/ node_horizon = horizon)
            /\ (filter = NoFilter \/ currency_codes # <<>>)
    IN  matches_leaf \/ has_contributing_child

(* app.py lines 2109-2123: the row as it is appended *)
NewPlanRow(allocation, currency_codes, node_horizon, cumulative_share) ==
    [allocation_id |-> allocation.id,
     currencies |-> IF currency_codes # <<>> THEN currency_codes ELSE <<"">>,
     time_horizon |-> node_horizon,
     target_share |-> cumulative_share,
     current_value |-> RInt(allocation.current_value),
     current_share |-> RZero,
     target_value |-> RZero,
     recommended_change |-> RZero,
     share_diff |-> RZero]

(* app.py lines 2094-2128: gather for one node, and for a listing of *)
(* nodes under one parent                                            *)
RECURSIVE Gather(_, _, _, _, _, _)
RECURSIVE GatherEach(_, _, _, _, _, _)
Gather(allocs, id, parent_share, inherited, horizon, filter) ==
    LET allocation == allocs[id]
        cumulative_share ==
            RMul(parent_share, RDiv(RInt(allocation.target_percent), RInt(100)))
        node_horizon == NodeHorizon(allocation, inherited)
        included_children ==
            {child \in Children(allocs, id) :
                Contributes(allocs, child, node_horizon, horizon, filter)}
        currency_codes == SelectCurrencyCodes(allocation.currency, filter)
        is_matching_leaf ==
            /\ allocation.include_in_rollup
            /\ included_children = {}
            /\ (horizon = None \/ node_horizon = horizon)
            /\ (filter = NoFilter \/ currency_codes # <<>>)
    IN  (IF is_matching_leaf
         THEN <<NewPlanRow(allocation, currency_codes, node_horizon, cumulative_share)>>
         ELSE <<>>)
        \o GatherEach(allocs, SortedIds(included_children), cumulative_share,
                      node_horizon, horizon, filter)

GatherEach(allocs, ids, parent_share, inherited, horizon, filter) ==
    IF ids = <<>> THEN <<>>
    ELSE Gather(allocs, ids[1], parent_share, inherited, horizon, filter)
         \o GatherEach(allocs, Tail(ids), parent_share, inherited, horizon, filter)

(* app.py lines 2129-2131 *)
GatherRoots(allocs, horizon, filter) ==
    GatherEach(allocs,
               SortedIds({id \in Roots(allocs) : Contributes(allocs, id, None, horizon, filter)}),
               RInt(100), None, horizon, filter)

RowSumOf(rows_, field) == RSum([i \in DOMAIN rows_ |-> rows_[i][field]])

(* app.py lines 2133-2139 *)
NormaliseShares(rows_) ==
    LET total_target_share == RowSumOf(rows_, "target_share")
    IN  [i \in DOMAIN rows_ |->
            [rows_[i] EXCEPT !.target_share =
                IF RIsZero(total_target_share) THEN RZero
                ELSE RMul(RDiv(@, total_target_share), RInt(100))]]

(* app.py lines 2141-2150 *)
ValueRows(rows_, amount_) ==
    LET total_current == RowSumOf(rows_, "current_value")
        target_total == RAdd(total_current, RInt(amount_))
    IN  [i \in DOMAIN rows_ |->
            LET row == rows_[i]
                current_share ==
                    IF RIsZero(total_current) THEN RZero
                    ELSE RMul(RDiv(row.current_value, total_current), RInt(100))
                target_value == RMul(target_total, RDiv(row.target_share, RInt(100)))
            IN  [row EXCEPT !.current_share = current_share,
                            !.target_value = target_value,
                            !.recommended_change = RSub(target_value, row.current_value),
                            !.share_diff = RSub(row.target_share, current_share)]]

(* recommended_change where it is invested, resp. divested, else 0 *)
Invested(row) == IF RLeq(RZero, row.recommended_change) THEN row.recommended_change ELSE RZero
Divested(row) == IF RLeq(RZero, row.recommended_change) THEN RZero ELSE row.recommended_change

(* app.py lines 2143-2168 *)
PlanTotals(rows_) ==
    [current_total |-> RowSumOf(rows_, "current_value"),
     target_total |-> RowSumOf(rows_, "target_value"),
     invest_total |-> RSum([i \in DOMAIN rows_ |-> Invested(rows_[i])]),
     divest_total |-> RSum([i \in DOMAIN rows_ |-> Divested(rows_[i])])]

(* app.py lines 2022-2032 *)
EmptyPlanTotals(amount_) ==
    [current_total |-> RZero,
     target_total |-> RInt(amount_),
     invest_total |-> RInt(amount_),
     divest_total |-> RZero]

(* faulty variant: every currency of a row is given the whole of the row *)
CodeWeightWhole(codes) == ROne

(* app.py lines 2172-2173 *)
RowCodes(row) == IF row.currencies # <<>> THEN row.currencies ELSE <<"">>
CodeWeight(codes) == RDiv(ROne, RInt(IF Len(codes) > 1 THEN Len(codes) ELSE 1))

(* the part of a quantity of the rows that falls to a currency *)
CodeShare(rows_, code, quantity) ==
    RSum([i \in DOMAIN rows_ |->
            IF code \in Range(RowCodes(rows_[i]))
            THEN RMul(quantity[i], CodeWeight(RowCodes(rows_[i])))
            ELSE RZero])

(* app.py lines 2170-2196 *)
CurrencyTotals(rows_) ==
    [code \in UNION {Range(RowCodes(rows_[i])) : i \in DOMAIN rows_} |->
        [current_total |-> CodeShare(rows_, code, [i \in DOMAIN rows_ |-> rows_[i].current_value]),
         target_total |-> CodeShare(rows_, code, [i \in DOMAIN rows_ |-> rows_[i].target_value]),
         invest_total |-> CodeShare(rows_, code, [i \in DOMAIN rows_ |-> Invested(rows_[i])]),
         divest_total |-> CodeShare(rows_, code, [i \in DOMAIN rows_ |-> Divested(rows_[i])])]]

(* app.py lines 2017-2131 *)
GatherPlanRows ==
    /\ plan_pc = "start"
    /\ IF DOMAIN allocations = {}
       THEN /\ plan_rows' = <<>>
            /\ totals' = EmptyPlanTotals(amount)
            /\ currency_totals' = <<>>
            /\ plan_pc' = "returned"
       ELSE /\ plan_rows' = GatherRoots(allocations, NormalizeHorizon(time_horizon), currency_filter)
            /\ plan_pc' = "gathered"
            /\ UNCHANGED <<totals, currency_totals>>
    /\ UNCHANGED <<allocations, amount, time_horizon, currency_filter>>
    /\ UNCHANGED <<risk_vars, db_vars>>

(* app.py lines 2133-2168 *)
ComputeTotals ==
    /\ plan_pc = "gathered"
    /\ plan_rows' = Tuple(ValueRows(NormaliseShares(plan_rows), amount))
    /\ totals' = PlanTotals(ValueRows(NormaliseShares(plan_rows), amount))
    /\ plan_pc' = "totalled"
    /\ UNCHANGED <<allocations, amount, time_horizon, currency_filter, currency_totals>>
    /\ UNCHANGED <<risk_vars, db_vars>>

(* app.py lines 2170-2198 *)
ComputeCurrencyTotals ==
    /\ plan_pc = "totalled"
    /\ currency_totals' = CurrencyTotals(plan_rows)
    /\ plan_pc' = "returned"
    /\ UNCHANGED <<allocations, amount, time_horizon, currency_filter, plan_rows, totals>>
    /\ UNCHANGED <<risk_vars, db_vars>>

(* texts of the currency column *)
CurrencyTexts == {<<>>, <<"USD">>, <<"eur", " USD", "EUR">>, <<" ", "n/a">>}

(* the rows of the repository: ids from 1, a parent that is another id *)
(* or None                                                             *)
AllocationRows(id) ==
    [id : {id},
     parent_id : {NoParent} \cup ((1..MaxAllocations) \ {id}),
     currency : CurrencyTexts,
     target_percent : {0, 50},
     include_in_rollup : BOOLEAN,
     current_value : {0, 30},
     time_horizon : {None, "1 year"}]

AllocationTables ==
    UNION {{t \in [D -> UNION {AllocationRows(id) : id \in D}] : \A id \in D : t[id].id = id} :
             D \in SUBSET (1..MaxAllocations)}

CurrencyFilters == {NoFilter, <<{"USD"}>>, <<{"EUR", ""}>>}

InitPlan ==
    /\ RiskIdle
    /\ DbIdle
    /\ allocations \in AllocationTables
    /\ amount \in {0, 30}
    /\ time_horizon \in {None, "1y"}
    /\ currency_filter \in CurrencyFilters
    /\ plan_rows = Empty
    /\ totals = Empty
    /\ currency_totals = Empty
    /\ plan_pc = "start"

NextPlan ==
    \/ GatherPlanRows
    \/ ComputeTotals
    \/ ComputeCurrencyTotals

(* calls of _build_plan *)
SpecPlan == InitPlan /\ [][NextPlan]_vars

(* ------------------------------------------------------------------ *)
(* Database, moneyalloc/database.py: the allocations table             *)
(* ------------------------------------------------------------------ *)
(* A row of the table is written id :> parent_id, the other columns   *)
(* play no part in deletion. _connection (lines 155-162) opens a new  *)
(* connection for every call and never sets PRAGMA foreign_keys, so   *)
(* whether REFERENCES ... ON DELETE CASCADE (line 83) is enforced is  *)
(* the default of the SQLite library in use: off unless the library   *)
(* was built to turn it on.                                           *)

(* the rows that descend from the rows S, S included *)
RECURSIVE WithDescendants(_, _)
WithDescendants(t, S) ==
    LET next == S \cup {r \in DOMAIN t : t[r] \in S}
    IN  IF next = S THEN S ELSE WithDescendants(t, next)

Restrict(t, D) == [r \in D |-> t[r]]

(* database.py lines 165-185; id INTEGER PRIMARY KEY AUTOINCREMENT *)
(* (line 82) never gives an id a second time                       *)
AddAllocation ==
    /\ lastrowid < MaxRows
    /\ \E parent_id \in {NoParent} \cup (1..MaxRows) :
          IF foreign_keys /\ parent_id # NoParent /\ parent_id \notin DOMAIN table
          THEN UNCHANGED <<table, lastrowid>>
          ELSE /\ table' = table @@ ((lastrowid + 1) :> parent_id)
               /\ lastrowid' = lastrowid + 1
    /\ deleted' = {}
    /\ UNCHANGED foreign_keys
    /\ UNCHANGED <<risk_vars, plan_vars>>

(* database.py lines 207-209 *)
DeleteAllocation ==
    /\ \E allocation_id \in 1..MaxRows :
          /\ table' =
                IF foreign_keys
                THEN Restrict(table, DOMAIN table \ WithDescendants(table, {allocation_id}))
                ELSE Restrict(table, DOMAIN table \ {allocation_id})
          /\ deleted' = {allocation_id} \cap DOMAIN table
    /\ UNCHANGED <<lastrowid, foreign_keys>>
    /\ UNCHANGED <<risk_vars, plan_vars>>

(* database.py lines 72-153: a new database file *)
InitDb ==
    /\ RiskIdle
    /\ PlanIdle
    /\ table = Empty
    /\ lastrowid = 0
    /\ foreign_keys \in BOOLEAN
    /\ deleted = {}

NextDb ==
    \/ AddAllocation
    \/ DeleteAllocation

(* calls of add_allocation and delete_allocation in any order *)
SpecDb == InitDb /\ [][NextDb]_vars

(* ------------------------------------------------------------------ *)
(* Properties                                                          *)
(* ------------------------------------------------------------------ *)
Weight(b) == spec.bucket_weights[b]
WeightedBuckets == {b \in Buckets : Weight(b) > 0}
SumOfPositiveWeights == IntSumOver(WeightedBuckets, spec.bucket_weights)

AllocationKeys == DOMAIN result.allocations
Allocation(key) == IF key \in AllocationKeys THEN result.allocations[key] ELSE RZero

(* the share allocated to a bucket, summed over its sleeves *)
BucketShare(b) ==
    RSumOver({key \in AllocationKeys : key[1] = b}, result.allocations)

(* the sleeves that have at least one decision variable *)
SleevesWithVariables == {variables[i][2] : i \in DOMAIN variables}

(* K_sleeve: tenor times allocated share, summed over the sleeve's variables *)
SleeveExposure(sl) ==
    RSumOver({i \in DOMAIN variables : variables[i][2] = sl},
             [i \in DOMAIN variables |->
                RMul(RInt(variables[i][3]),
                     Allocation(<<variables[i][1], variables[i][2]>>))])

(* C1, as claimed: in every result the shares of a bucket with a positive *)
(* weight sum to bucket_weights[b] / 100, whatever the weights sum to.    *)
C1_BucketShareIsWeightOver100 ==
    Returned => \A b \in WeightedBuckets : BucketShare(b) = Rat(Weight(b), 100)

(* C1, amended: in every result the shares of a bucket with a positive    *)
(* weight sum to bucket_weights[b] divided by the sum of the positive     *)
(* weights, which is bucket_weights[b] / 100 only if they sum to 100.     *)
C1_BucketShareIsNormalisedWeight ==
    Returned =>
        \A b \in WeightedBuckets : BucketShare(b) = Rat(Weight(b), SumOfPositiveWeights)

C1_Witness ==
    /\ Returned
    /\ SumOfPositiveWeights # 100
    /\ Cardinality(WeightedBuckets) > 1
    /\ Cardinality(AllocationKeys) > 2

(* C2: in every result, any two sleeves that each have a decision variable *)
(* carry the same exposure (tenor times share, summed over the sleeve).   *)
C2_ExposuresEqualAcrossSleeves ==
    Returned =>
        \A s1, s2 \in SleevesWithVariables : SleeveExposure(s1) = SleeveExposure(s2)

C2_Witness ==
    /\ Returned
    /\ Cardinality(SleevesWithVariables) > 1
    /\ \E i, j \in DOMAIN variables :
          /\ variables[i][3] # variables[j][3]
          /\ Allocation(<<variables[i][1], variables[i][2]>>)
                # Allocation(<<variables[j][1], variables[j][2]>>)

(* Candidate allocations: every bucket's normalised weight split among its *)
(* variables in whole multiples of g / total, g the greatest common        *)
(* divisor of the positive weights.                                        *)
RECURSIVE GcdOver(_)
GcdOver(S) ==
    IF S = {} THEN 0
    ELSE LET x == CHOOSE y \in S : TRUE
         IN  GCD(x, GcdOver(S \ {x}))

WeightStep == GcdOver({Weight(b) : b \in WeightedBuckets})

RECURSIVE Compositions(_, _)
Compositions(n, total) ==
    IF n = 0 THEN (IF total = 0 THEN {<<>>} ELSE {})
    ELSE UNION {{<<k>> \o rest : rest \in Compositions(n - 1, total - k)} : k \in 0..total}

RECURSIVE CandidateUnits(_)
CandidateUnits(k) ==
    IF k > Len(ordered_buckets) THEN {<<>>}
    ELSE {a \o rest :
            a \in Compositions(Cardinality(VarIndices(variables, ordered_buckets[k])),
                               Weight(ordered_buckets[k]) \div WeightStep),
            rest \in CandidateUnits(k + 1)}

Candidates ==
    {[i \in DOMAIN units |-> Rat(units[i] * WeightStep, SumOfPositiveWeights)] :
        units \in CandidateUnits(1)}

SatisfiesAll(rows_, rhs_, x) ==
    \A k \in DOMAIN rows_ : RIsZero(Residual(rows_[k], rhs_[k], x))

(* yields in percent, one per decision variable; the solver is not given them *)
MaxYield == 2
YieldAssignments == [DOMAIN variables -> 1..MaxYield]
PortfolioYield(yields, x) == RSum([i \in DOMAIN x |-> RMul(RInt(yields[i]), x[i])])

(* the bucket-weight and risk-equalisation rows, without the currency rows *)
BucketAndRiskRows == SubSeq(rows, 1, Len(ordered_buckets) + Len(RiskRows(variables)))
BucketAndRiskRhs == SubSeq(rhs, 1, Len(ordered_buckets) + Len(RiskRows(variables)))

(* C3, as claimed: the returned allocation maximises the portfolio yield  *)
(* over the non-negative allocations that satisfy the bucket-weight and   *)
(* risk-equalisation equalities, for any yields of the variables.         *)
C3_ResultMaximisesYield ==
    Returned =>
        \A x \in Candidates :
            SatisfiesAll(BucketAndRiskRows, BucketAndRiskRhs, x) =>
                \A yields \in YieldAssignments :
                    RLeq(PortfolioYield(yields, x), PortfolioYield(yields, solution))

(* the solution of the equality system, before line 268 clamps it *)
SolvedAllocation == SolveWithMultipliers(rows, rhs, Len(variables))

(* C4: every value of a returned result is non-negative, and a call whose  *)
(* solved allocation has a negative component returns no result: it is     *)
(* raised as a negative allocation.                                        *)
C4_NoNegativeAllocation ==
    /\ Returned =>
          /\ \A key \in AllocationKeys : RLeq(RZero, result.allocations[key])
          /\ \A i \in DOMAIN SolvedAllocation : RLeq(RZero, SolvedAllocation[i])
    /\ (pc \in {"validated", "returned"}) =>
          \A i \in DOMAIN solution : RLeq(RZero, solution[i])
    /\ (Raised /\ error = "Optimisation produced negative allocations") =>
          result = Empty

C4_Witness ==
    /\ Raised
    /\ error = "Optimisation produced negative allocations"
    /\ \E i \in DOMAIN SolvedAllocation : RLess(SolvedAllocation[i], RZero)

(* C5, as claimed: a call whose equality constraints have a solution with *)
(* every component non-negative returns a result; it is not raised.       *)
C5_FeasibleSystemReturns ==
    (Raised /\ rows # Empty) =>
        \A x \in Candidates : ~SatisfiesAll(rows, rhs, x)

(* a tenor is supplied for the pair, whatever its value *)
Supplied(b, sl) == <<b, sl>> \in DOMAIN spec.tenors

(* a positive tenor is supplied for the pair *)
SuppliedPositive(b, sl) == Supplied(b, sl) /\ spec.tenors[<<b, sl>>] > 0

HasHorizon(b) == b \in DOMAIN spec.bucket_horizons

(* b1 is b2 or comes before it in ascending (horizon, name) order *)
NotAfter(b1, b2) ==
    /\ HasHorizon(b1)
    /\ HasHorizon(b2)
    /\ \/ spec.bucket_horizons[b1] < spec.bucket_horizons[b2]
       \/ /\ spec.bucket_horizons[b1] = spec.bucket_horizons[b2]
          /\ NameIndex(BucketNames, b1) <= NameIndex(BucketNames, b2)

(* a positive tenor of the sleeve is supplied at the bucket or at an *)
(* earlier bucket that takes part in the optimisation               *)
SuppliedUpTo(b, sl) ==
    \E b1 \in WeightedBuckets : NotAfter(b1, b) /\ SuppliedPositive(b1, sl)

DiscoveredPairs ==
    {<<b, sl>> \in Buckets \X Sleeves :
        b \in DOMAIN bucket_sleeve_tenors /\ sl \in DOMAIN bucket_sleeve_tenors[b]}

VariablePairs == {<<variables[i][1], variables[i][2]>> : i \in DOMAIN variables}

(* C6, as claimed: a (bucket, sleeve) pair for which no tenor is supplied *)
(* is never a decision variable and never a key of allocations.           *)
C6_UnsuppliedPairNeverVariable ==
    /\ \A pair \in VariablePairs : Supplied(pair[1], pair[2])
    /\ Returned => \A pair \in AllocationKeys : Supplied(pair[1], pair[2])

(* C6, amended: a (bucket, sleeve) pair is discovered, becomes a decision  *)
(* variable or is a key of allocations only if a positive tenor is         *)
(* supplied for the sleeve at that bucket or at an earlier positive-weight *)
(* bucket in ascending (horizon, name) order.                              *)
C6_VariableHasTenorUpToBucket ==
    /\ \A pair \in DiscoveredPairs : SuppliedUpTo(pair[1], pair[2])
    /\ \A pair \in VariablePairs : SuppliedUpTo(pair[1], pair[2])
    /\ Returned => \A pair \in AllocationKeys : SuppliedUpTo(pair[1], pair[2])

C6_Witness ==
    /\ Returned
    /\ \E pair \in AllocationKeys : ~Supplied(pair[1], pair[2])
    /\ \E b \in WeightedBuckets, sl \in Sleeves :
          SuppliedPositive(b, sl) /\ <<b, sl>> \in AllocationKeys

NoDataFor(b) == \A sl \in Sleeves : ~SuppliedPositive(b, sl)

NoDataUpTo(b) == \A b1 \in WeightedBuckets : NotAfter(b1, b) => NoDataFor(b1)

BeforeVariables == pc \in {"start", "normalised", "discovering", "raised"}

(* C7, as claimed: if a bucket with a positive weight has no data under  *)
(* any sleeve, the call returns no result, whatever the other buckets    *)
(* have.                                                                  *)
C7_BucketWithoutDataFails ==
    (\E b \in WeightedBuckets : NoDataFor(b)) => ~Returned

(* C7, amended: if a bucket with a positive weight has no data under any *)
(* sleeve, and neither has any earlier bucket in ascending (horizon,     *)
(* name) order, the call fails in discovery with the error that no       *)
(* sleeve was found and returns no result, whatever the other buckets    *)
(* have.                                                                  *)
C7_BucketWithoutDataUpToItFails ==
    (\E b \in WeightedBuckets : HasHorizon(b) /\ NoDataUpTo(b)) =>
        /\ BeforeVariables
        /\ result = Empty
        /\ Raised => error \in {"No sleeves with tenor <= horizon found",
                                "Missing horizon information"}

C7_Witness ==
    /\ Raised
    /\ error = "No sleeves with tenor <= horizon found"
    /\ \E b \in WeightedBuckets : NoDataUpTo(b)
    /\ \E b \in WeightedBuckets : ~NoDataFor(b)

(* C8, as claimed: if a tenor of 0 or less is supplied for a bucket that *)
(* takes part in the optimisation, the call is rejected before any solve *)
(* is attempted.                                                          *)
C8_NonPositiveTenorRejectedBeforeSolve ==
    (\E b \in WeightedBuckets, sl \in Sleeves :
        Supplied(b, sl) /\ spec.tenors[<<b, sl>>] <= 0)
    => pc \notin {"solved", "validated", "returned"}

NoUsableData == \A b \in WeightedBuckets : NoDataFor(b)

(* C9: when no pair of a positive-weight bucket has a positive tenor, the *)
(* call fails before any variable is collected and returns no result;    *)
(* every returned result has a variable and allocates a positive share.  *)
C9_NoUsableDataFails ==
    /\ NoUsableData =>
          /\ BeforeVariables
          /\ variables = Empty
          /\ result = Empty
          /\ Raised => error \in {"At least one positive bucket weight is required",
                                  "Missing horizon information",
                                  "No sleeves with tenor <= horizon found"}
    /\ Returned =>
          /\ variables # Empty
          /\ AllocationKeys # {}
          /\ \E key \in AllocationKeys : RLess(RZero, result.allocations[key])

C9_Witness ==
    /\ Raised
    /\ error = "No sleeves with tenor <= horizon found"
    /\ NoUsableData
    /\ WeightedBuckets # {}
    /\ DOMAIN spec.tenors # {}

NegativeBuckets == {b \in Buckets : Weight(b) < 0}

(* C10, as claimed: a call whose bucket_weights has a negative weight *)
(* returns no result.                                                  *)
C10_NegativeWeightRejected ==
    NegativeBuckets # {} => ~Returned

(* C10, amended: a call whose bucket_weights has a negative weight and no *)
(* positive weight is rejected for want of a positive weight and returns *)
(* no result; beside a positive weight, a bucket with a negative weight  *)
(* is left out of the optimisation.                                      *)
C10_NegativeWeightRejectedOrDropped ==
    /\ (NegativeBuckets # {} /\ WeightedBuckets = {}) =>
          /\ pc \in {"start", "raised"}
          /\ result = Empty
          /\ Raised => error = "At least one positive bucket weight is required"
    /\ \A b \in NegativeBuckets :
          /\ b \notin DOMAIN normalised
          /\ b \notin Range(ordered_buckets)
          /\ Returned => \A sl \in Sleeves : <<b, sl>> \notin AllocationKeys

C10_Witness ==
    /\ Raised
    /\ error = "At least one positive bucket weight is required"
    /\ NegativeBuckets # {}

(* the sleeve is the only one with data, and every bucket that takes *)
(* part has data for it                                              *)
OnlySleeve(sl) ==
    /\ \A key \in DOMAIN spec.tenors : key[2] = sl
    /\ \A b \in WeightedBuckets : SuppliedPositive(b, sl)

TenorsWithinHorizons ==
    \A key \in DOMAIN spec.tenors :
        HasHorizon(key[1]) => spec.tenors[key] <= spec.bucket_horizons[key[1]]

MinOf(S) == CHOOSE x \in S : \A y \in S : x <= y

(* the tenor a sleeve has at a bucket: the least positive tenor supplied *)
(* for it at the bucket or at an earlier bucket                          *)
EffectiveTenor(b, sl) ==
    MinOf({spec.tenors[<<b1, sl>>] :
             b1 \in {b2 \in WeightedBuckets : NotAfter(b2, b) /\ SuppliedPositive(b2, sl)}})

(* the weight of the buckets held in a currency at which the sleeve has *)
(* the tenor                                                            *)
WeightAt(sl, tenor, cur) ==
    IntSumOver({b \in WeightedBuckets :
                  /\ spec.bucket_currencies[b] = cur
                  /\ EffectiveTenor(b, sl) = tenor},
               spec.bucket_weights)

(* two currencies hold the sleeve at one tenor with different weights *)
CurrencyConflict(sl) ==
    \E b1, b2 \in WeightedBuckets :
        /\ spec.bucket_currencies[b1] # spec.bucket_currencies[b2]
        /\ EffectiveTenor(b1, sl) = EffectiveTenor(b2, sl)
        /\ WeightAt(sl, EffectiveTenor(b1, sl), spec.bucket_currencies[b1])
              # WeightAt(sl, EffectiveTenor(b1, sl), spec.bucket_currencies[b2])

(* a row that sets a sum of tenor-weighted shares of one sleeve against *)
(* that of another: its entries do not cancel                           *)
RowSum(row) == IntSumOver(DOMAIN row, row)
RowsBeyondBuckets == {k \in DOMAIN rows : k > Len(ordered_buckets)}

(* C11, as claimed: if one sleeve alone has data, at every bucket with a *)
(* positive weight and within the bucket's horizon, the call is never   *)
(* raised, whatever the weights, tenors and currencies.                 *)
C11_SingleSleeveAlwaysSucceeds ==
    ((\E sl \in Sleeves : OnlySleeve(sl)) /\ TenorsWithinHorizons) => ~Raised

(* C11, amended: if one sleeve alone has data, at every bucket with a    *)
(* positive weight, and no tenor exceeds its bucket's horizon, then no   *)
(* risk-equalisation row is built; the call returns each bucket's whole  *)
(* normalised share in that sleeve, unless currency balancing ties       *)
(* different weights of two currencies at one tenor, and then the call   *)
(* is raised as unable to equalise.                                      *)
C11_SingleSleeveTakesWholeShare ==
    \A sl \in Sleeves :
        (OnlySleeve(sl) /\ TenorsWithinHorizons) =>
            /\ \A k \in RowsBeyondBuckets : RowSum(rows[k]) = 0 /\ RIsZero(rhs[k])
            /\ ~CurrencyConflict(sl) =>
                  /\ ~Raised
                  /\ Returned =>
                        /\ AllocationKeys = WeightedBuckets \X {sl}
                        /\ \A b \in WeightedBuckets :
                              Allocation(<<b, sl>>) = Rat(Weight(b), SumOfPositiveWeights)
            /\ CurrencyConflict(sl) =>
                  /\ ~Returned
                  /\ Raised => error = "Unable to equalise risk"

C11_Witness ==
    /\ Returned
    /\ \E sl \in Sleeves : OnlySleeve(sl)
    /\ \E b1, b2 \in WeightedBuckets :
          /\ Weight(b1) # Weight(b2)
          /\ spec.bucket_currencies[b1] # spec.bucket_currencies[b2]

(* C12, as claimed: every decision variable is a key of allocations in *)
(* the returned result, also a variable whose solved share is 0.       *)
C12_EveryVariableHasEntry ==
    Returned => VariablePairs \subseteq AllocationKeys

(* C12, amended: the keys of allocations in a returned result are the   *)
(* decision variables whose share is positive, each with its share; a   *)
(* variable whose share is 0 has no entry.                              *)
C12_EntryIffPositiveShare ==
    Returned =>
        \A i \in DOMAIN variables :
            LET key == <<variables[i][1], variables[i][2]>>
            IN  /\ key \in AllocationKeys <=> RLess(RZero, solution[i])
                /\ key \in AllocationKeys => result.allocations[key] = solution[i]

C12_Witness ==
    /\ Returned
    /\ \E i \in DOMAIN variables :
          /\ RIsZero(solution[i])
          /\ <<variables[i][1], variables[i][2]>> \notin AllocationKeys

(* C13: in every returned result by_bucket[b] is the sum of the          *)
(* allocations of bucket b and by_sleeve[s] the sum of the allocations   *)
(* of sleeve s, over exactly the buckets and sleeves that have an        *)
(* allocation, so that both aggregates have the same total.              *)
C13_AggregatesMatchAllocations ==
    Returned =>
        /\ DOMAIN result.by_bucket = {key[1] : key \in AllocationKeys}
        /\ DOMAIN result.by_sleeve = {key[2] : key \in AllocationKeys}
        /\ \A b \in DOMAIN result.by_bucket :
              result.by_bucket[b] =
                 RSumOver({key \in AllocationKeys : key[1] = b}, result.allocations)
        /\ \A sl \in DOMAIN result.by_sleeve :
              result.by_sleeve[sl] =
                 RSumOver({key \in AllocationKeys : key[2] = sl}, result.allocations)
        /\ RSumOver(DOMAIN result.by_bucket, result.by_bucket)
              = RSumOver(DOMAIN result.by_sleeve, result.by_sleeve)

C13_Witness ==
    /\ Returned
    /\ \E k1, k2 \in AllocationKeys : k1[1] = k2[1] /\ k1[2] # k2[2]
    /\ \E k1, k2 \in AllocationKeys : k1[1] # k2[1] /\ k1[2] = k2[2]

(* the field of the result that reports the exposure of a sleeve *)
RiskField(sl) ==
    CASE sl = "rates" -> "K_rates"
      [] sl = "tips" -> "K_tips"
      [] sl = "credit" -> "K_credit"

(* C14, as claimed: a returned result has the fields K_rates, K_tips and *)
(* K_credit, each the tenor-weighted share of its sleeve (0 for a sleeve *)
(* without variables), and the field portfolio_yield.                    *)
C14_ResultCarriesRiskFigures ==
    Returned =>
        /\ "portfolio_yield" \in DOMAIN result
        /\ \A sl \in Sleeves :
              /\ RiskField(sl) \in DOMAIN result
              /\ result[RiskField(sl)] = SleeveExposure(sl)

(* C15: in every returned result by_bucket has exactly the buckets with *)
(* a positive weight, by_bucket[b] is the weight of b divided by the    *)
(* sum of the positive weights, and the values of by_bucket sum to 1.   *)
C15_ByBucketIsNormalisedWeight ==
    Returned =>
        /\ DOMAIN result.by_bucket = WeightedBuckets
        /\ \A b \in WeightedBuckets :
              result.by_bucket[b] = Rat(Weight(b), SumOfPositiveWeights)
        /\ RSumOver(DOMAIN result.by_bucket, result.by_bucket) = ROne

C15_Witness ==
    /\ Returned
    /\ NegativeBuckets # {}
    /\ \E b \in WeightedBuckets : Weight(b) # 100

(* the variables of a sleeve with a tenor at buckets held in a currency *)
VariablesAt(sl, tenor, cur) ==
    {i \in DOMAIN variables :
        /\ variables[i][2] = sl
        /\ variables[i][3] = tenor
        /\ spec.bucket_currencies[variables[i][1]] = cur}

(* the share allocated to them in the result *)
ShareAt(sl, tenor, cur) ==
    RSumOver(VariablesAt(sl, tenor, cur),
             [i \in DOMAIN variables |-> Allocation(<<variables[i][1], variables[i][2]>>)])

(* C16: in every returned result, for each sleeve and each effective    *)
(* tenor, every currency that has a variable of that sleeve and tenor   *)
(* is allocated the same total share in those variables.                *)
C16_CurrenciesBalancedPerTenor ==
    Returned =>
        \A sl \in Sleeves, tenor \in TenorValues, c1, c2 \in Currencies :
            (VariablesAt(sl, tenor, c1) # {} /\ VariablesAt(sl, tenor, c2) # {}) =>
                ShareAt(sl, tenor, c1) = ShareAt(sl, tenor, c2)

C16_Witness ==
    /\ Returned
    /\ \E sl \in Sleeves, tenor \in TenorValues :
          /\ VariablesAt(sl, tenor, "USD") # {}
          /\ VariablesAt(sl, tenor, "EUR") # {}
          /\ RLess(RZero, ShareAt(sl, tenor, "USD"))
    /\ Cardinality(SleevesWithVariables) > 1

(* C17: if a bucket with a positive weight has no entry in              *)
(* bucket_horizons, the call gets no further than sorting the buckets:  *)
(* it is raised for the missing horizon and returns no result, whatever *)
(* tenors are supplied.                                                 *)
C17_MissingHorizonRejected ==
    (\E b \in WeightedBuckets : ~HasHorizon(b)) =>
        /\ pc \in {"start", "normalised", "raised"}
        /\ ordered_buckets = Empty
        /\ variables = Empty
        /\ result = Empty
        /\ Raised => error = "Missing horizon information"

C17_Witness ==
    /\ Raised
    /\ error = "Missing horizon information"
    /\ \E b \in WeightedBuckets : ~HasHorizon(b) /\ \E sl \in Sleeves : SuppliedPositive(b, sl)
    /\ \E b \in WeightedBuckets : HasHorizon(b)

(* the orders in which a dict with the keys S can yield them *)
Orders(S) ==
    {order \in [1..Cardinality(S) -> S] : \A i, j \in DOMAIN order : order[i] = order[j] => i = j}

(* the bucket the discovery loop turns to next *)
NextBucket == ordered_buckets[Cardinality(DOMAIN bucket_sleeve_tenors) + 1]

(* what a step of the discovery loop does with that bucket *)
DiscoveryStep ==
    IF TenorExceedsHorizon(NextBucket, spec.bucket_horizons, spec.tenors)
    THEN [error |-> "Tenor exceeds horizon", available |-> <<>>]
    ELSE IF NoSleeves(TenorsForBucket(NextBucket, spec.tenors, previous_sleeves))
    THEN [error |-> "No sleeves with tenor <= horizon found", available |-> <<>>]
    ELSE [error |-> "",
          available |-> TenorsForBucket(NextBucket, spec.tenors, previous_sleeves)]

BothFinished == Finished /\ parked # Empty /\ parked.pc \in {"returned", "raised"}

InDiscovery ==
    pc = "discovering" /\ Cardinality(DOMAIN bucket_sleeve_tenors) < Len(ordered_buckets)

InOrder(order) ==
    TenorsForBucketInOrder(NextBucket, spec.bucket_horizons, spec.tenors, order,
                           previous_sleeves)

(* C18, as claimed: two calls with equal ProblemSpecs end alike, with   *)
(* equal results or with the same error, whichever of them ran first;   *)
(* and the order in which the tenors dict yields its items changes      *)
(* nothing of what the discovery loop finds or raises for a bucket.     *)
C18_OutcomeIndependentOfOrder ==
    /\ (BothFinished /\ parked.spec = spec) =>
          /\ result = parked.result
          /\ error = parked.error
    /\ InDiscovery =>
          \A order1, order2 \in Orders(DOMAIN spec.tenors) : InOrder(order1) = InOrder(order2)

(* C18, amended: two calls with equal ProblemSpecs end alike, with      *)
(* equal results or with an error of the same kind, whichever of them   *)
(* ran first and however their steps interleave; whatever the order in  *)
(* which the tenors dict yields its items, the discovery loop finds the *)
(* same sleeves and tenors for a bucket or raises an error of the same  *)
(* kind; only the tenor quoted by "Tenor exceeds horizon" depends on    *)
(* that order.                                                          *)
C18_EqualInputsEqualOutcome ==
    /\ (BothFinished /\ parked.spec = spec) =>
          /\ result = parked.result
          /\ error = parked.error
    /\ InDiscovery =>
          \A order \in Orders(DOMAIN spec.tenors) :
              /\ InOrder(order).error = DiscoveryStep.error
              /\ InOrder(order).available = DiscoveryStep.available
              /\ InOrder(order).quoted # 0 =>
                    \E sl \in Sleeves :
                        /\ Supplied(NextBucket, sl)
                        /\ spec.tenors[<<NextBucket, sl>>] = InOrder(order).quoted
                        /\ InOrder(order).quoted > spec.bucket_horizons[NextBucket]

C18_Witness ==
    /\ BothFinished
    /\ parked.spec = spec
    /\ Returned
    /\ \E k1, k2 \in DOMAIN spec.tenors : k1 # k2 /\ k1[1] # k2[1]
    /\ \E pair \in AllocationKeys : ~Supplied(pair[1], pair[2])

(* C19: when the steps of two calls interleave in any order, each call *)
(* ends with the result or the error that run_risk_equal_optimization  *)
(* gives for its own ProblemSpec alone, whatever the other call is     *)
(* given and however far it has got.                                   *)
C19_InterleavedCallsRunAsAlone ==
    /\ Finished => Outcome(result, error) = RunRiskEqualOptimization(spec)
    /\ (parked # Empty /\ parked.pc \in {"returned", "raised"}) =>
          Outcome(parked.result, parked.error) = RunRiskEqualOptimization(parked.spec)

C19_Witness ==
    /\ BothFinished
    /\ parked.spec # spec
    /\ Returned
    /\ parked.pc = "returned"
    /\ parked.result # result
    /\ \E pair \in AllocationKeys : ~Supplied(pair[1], pair[2])

(* C20: no step of a call, whether it goes on, returns or raises,     *)
(* changes the caller's ProblemSpec: bucket_weights, bucket_horizons, *)
(* tenors and bucket_currencies stay as they were passed.             *)
C20_ProblemSpecUnchanged ==
    [][/\ spec'.bucket_weights = spec.bucket_weights
       /\ spec'.bucket_horizons = spec.bucket_horizons
       /\ spec'.tenors = spec.tenors
       /\ spec'.bucket_currencies = spec.bucket_currencies]_vars

C20_Witness ==
    /\ Returned
    /\ DOMAIN normalised # DOMAIN spec.bucket_weights
    /\ \E b \in DOMAIN normalised : normalised[b] # RInt(spec.bucket_weights[b])
    /\ previous_sleeves # Empty

(* the place of a name in a listing of names, 0 when it is not listed *)
PlaceIn(names, x) ==
    IF \E i \in DOMAIN names : names[i] = x THEN NameIndex(names, x) ELSE 0

(* the variables list buckets in ascending (horizon, name) order, each *)
(* bucket once as one run, and the sleeves of a bucket in the order of *)
(* the listing, none twice                                             *)
VariablesListedBy(sleeve_order) ==
    \A i, j \in DOMAIN variables :
        i < j =>
            /\ NotAfter(variables[i][1], variables[j][1])
            /\ variables[i][1] = variables[j][1] =>
                  PlaceIn(sleeve_order, variables[i][2]) < PlaceIn(sleeve_order, variables[j][2])

AscendingSleeveOrder == <<"credit", "rates", "tips">>

ClaimedSleeveOrder == <<"rates", "tips", "credit">>

(* C21, as claimed: the decision variables list the buckets in a stable *)
(* order and, within each bucket, the sleeves in the order rates, tips, *)
(* credit.                                                              *)
C21_SleevesInClaimedOrder ==
    variables # Empty => VariablesListedBy(ClaimedSleeveOrder)

(* C21: the decision variables are listed in a deterministic order:    *)
(* buckets in ascending (horizon, name) order and, within each bucket, *)
(* sleeves in ascending name order credit, rates, tips.                *)
C21_VariablesInDeterministicOrder ==
    variables # Empty => VariablesListedBy(AscendingSleeveOrder)

C21_Witness ==
    /\ Returned
    /\ \E i, j \in DOMAIN variables :
          /\ i < j
          /\ variables[i][1] = variables[j][1]
          /\ variables[i][2] = "credit"
          /\ variables[j][2] = "rates"
    /\ \E i, j \in DOMAIN variables : variables[i][1] # variables[j][1]

(* C22: every decision variable's sleeve is one of rates, tips and  *)
(* credit, so there are never more than 3 decision variables for a  *)
(* bucket, whatever keys the caller puts in the tenors dict.        *)
C22_SleevesAreClosedSet ==
    /\ \A i \in DOMAIN variables : variables[i][2] \in Sleeves
    /\ Len(variables) <= 3 * Len(ordered_buckets)

PlanReturned == plan_pc = "returned"

(* the parsed currency codes of the allocation a plan row stands for *)
ParsedCodesOf(row) == ParseCurrencyCodes(allocations[row.allocation_id].currency)

(* the codes of a listing that belong to a set, in their order *)
RECURSIVE CodesWithin(_, _)
CodesWithin(codes, F) ==
    IF codes = <<>> THEN <<>>
    ELSE (IF codes[1] \in F THEN <<codes[1]>> ELSE <<>>) \o CodesWithin(Tail(codes), F)

RowsOf(id) == {i \in DOMAIN plan_rows : plan_rows[i].allocation_id = id}

(* C23: when _build_plan returns, with a currency filter F every plan   *)
(* row's currencies are exactly the parsed currency codes of its        *)
(* allocation that belong to F, in their original order, and an         *)
(* allocation with no code in F has no row; with no filter every row    *)
(* keeps all parsed codes; the keys of currency_totals are exactly the  *)
(* union of the rows' currencies.                                       *)
C23_RowCurrenciesAreFilteredCodes ==
    PlanReturned =>
        /\ \A i \in DOMAIN plan_rows :
              /\ plan_rows[i].allocation_id \in DOMAIN allocations
              /\ plan_rows[i].currencies =
                    IF currency_filter = NoFilter THEN ParsedCodesOf(plan_rows[i])
                    ELSE CodesWithin(ParsedCodesOf(plan_rows[i]), currency_filter[1])
        /\ currency_filter # NoFilter =>
              \A id \in DOMAIN allocations :
                  Range(ParseCurrencyCodes(allocations[id].currency)) \cap currency_filter[1] = {}
                      => RowsOf(id) = {}
        /\ DOMAIN currency_totals =
              UNION {Range(plan_rows[i].currencies) : i \in DOMAIN plan_rows}

C23_Witness ==
    /\ PlanReturned
    /\ currency_filter # NoFilter
    /\ \E i \in DOMAIN plan_rows :
          /\ Len(ParsedCodesOf(plan_rows[i])) > Len(plan_rows[i].currencies)
          /\ Len(allocations[plan_rows[i].allocation_id].currency) > Len(ParsedCodesOf(plan_rows[i]))
    /\ \E id \in DOMAIN allocations :
          /\ allocations[id].include_in_rollup
          /\ Children(allocations, id) = {}
          /\ RowsOf(id) = {}
          /\ Range(ParseCurrencyCodes(allocations[id].currency)) \cap currency_filter[1] = {}

TotalFields == {"current_total", "target_total", "invest_total", "divest_total"}

(* the per-currency totals of a field, summed over the currencies *)
SumOverCurrencies(field) ==
    RSumOver(DOMAIN currency_totals, [code \in DOMAIN currency_totals |-> currency_totals[code][field]])

(* the equal part of a quantity of the row that falls to one of its currencies *)
EqualPart(i, quantity) == RDiv(quantity, RInt(Len(plan_rows[i].currencies)))

(* every currency total is made of equal parts of the rows that name *)
(* the currency                                                      *)
SplitInEqualParts ==
    \A code \in DOMAIN currency_totals :
        LET naming == {i \in DOMAIN plan_rows : code \in Range(plan_rows[i].currencies)}
            change(i) == plan_rows[i].recommended_change
        IN  /\ currency_totals[code].current_total =
                  RSumOver(naming, [i \in naming |-> EqualPart(i, plan_rows[i].current_value)])
            /\ currency_totals[code].target_total =
                  RSumOver(naming, [i \in naming |-> EqualPart(i, plan_rows[i].target_value)])
            /\ RAdd(currency_totals[code].invest_total, currency_totals[code].divest_total) =
                  RSumOver(naming, [i \in naming |-> EqualPart(i, change(i))])

(* C24, as claimed: whenever _build_plan returns, the values of each  *)
(* row are split in equal parts among its currencies and, for each of *)
(* the four totals, the per-currency totals sum to the overall total. *)
C24_CurrencyTotalsSumToTotals ==
    PlanReturned =>
        /\ SplitInEqualParts
        /\ \A field \in TotalFields : SumOverCurrencies(field) = totals[field]

(* C24: when _build_plan returns for a repository that holds at least  *)
(* one allocation, each row's current value, target value and          *)
(* recommended change are split in equal parts among the row's         *)
(* currencies and, for each of current_total, target_total,            *)
(* invest_total and divest_total, the per-currency totals sum to the   *)
(* overall total; with no allocation stored, target_total and          *)
(* invest_total are the amount and currency_totals is empty.           *)
C24_CurrencyTotalsSumToTotalsOfRows ==
    PlanReturned =>
        /\ SplitInEqualParts
        /\ DOMAIN allocations # {} =>
              \A field \in TotalFields : SumOverCurrencies(field) = totals[field]
        /\ DOMAIN allocations = {} =>
              /\ totals.target_total = RInt(amount)
              /\ totals.invest_total = RInt(amount)
              /\ DOMAIN currency_totals = {}

C24_Witness ==
    /\ PlanReturned
    /\ \E i, j \in DOMAIN plan_rows :
          /\ Len(plan_rows[i].currencies) = 2
          /\ Len(plan_rows[j].currencies) = 1
          /\ RLess(RZero, plan_rows[i].recommended_change)
          /\ RLess(plan_rows[j].recommended_change, RZero)
    /\ ~RIsZero(totals.invest_total)
    /\ ~RIsZero(totals.divest_total)
    /\ Cardinality(DOMAIN currency_totals) = 2

(* C25: taking the positive-weight buckets in ascending (horizon, name) *)
(* order, the effective tenor of a sleeve at a bucket is the minimum of *)
(* all positive tenors supplied for that sleeve at this bucket and at   *)
(* every earlier bucket, in the discovered sleeves and in the decision  *)
(* variables alike; a sleeve's effective tenor never increases along    *)
(* the order.                                                           *)
C25_EffectiveTenorIsMinimumSoFar ==
    /\ \A b \in DOMAIN bucket_sleeve_tenors :
          \A sl \in DOMAIN bucket_sleeve_tenors[b] :
              /\ SuppliedUpTo(b, sl)
              /\ bucket_sleeve_tenors[b][sl] = EffectiveTenor(b, sl)
    /\ \A i \in DOMAIN variables :
          /\ SuppliedUpTo(variables[i][1], variables[i][2])
          /\ variables[i][3] = EffectiveTenor(variables[i][1], variables[i][2])
    /\ \A b1, b2 \in DOMAIN bucket_sleeve_tenors :
          NotAfter(b1, b2) =>
              \A sl \in DOMAIN bucket_sleeve_tenors[b1] :
                  /\ sl \in DOMAIN bucket_sleeve_tenors[b2]
                  /\ bucket_sleeve_tenors[b2][sl] <= bucket_sleeve_tenors[b1][sl]

(* a call returns in which a bucket keeps the shorter tenor of an *)
(* earlier bucket over its own longer one                         *)
C25_Witness ==
    /\ Returned
    /\ \E i \in DOMAIN variables :
          /\ SuppliedPositive(variables[i][1], variables[i][2])
          /\ spec.tenors[<<variables[i][1], variables[i][2]>>] > variables[i][3]

(* C26: sleeve availability carries forward: once a sleeve is available *)
(* to a bucket, every later bucket in ascending (horizon, name) order   *)
(* has it too, and in a call that has its decision variables every      *)
(* later bucket has a decision variable for that sleeve, even when no   *)
(* tenor is supplied for it at the later bucket.                        *)
C26_AvailabilityCarriesForward ==
    /\ \A b1, b2 \in DOMAIN bucket_sleeve_tenors :
          NotAfter(b1, b2) =>
              DOMAIN bucket_sleeve_tenors[b1] \subseteq DOMAIN bucket_sleeve_tenors[b2]
    /\ variables # Empty =>
          \A pair \in VariablePairs :
              \A b2 \in Range(ordered_buckets) :
                  NotAfter(pair[1], b2) => <<b2, pair[2]>> \in VariablePairs

(* a call returns with a decision variable for a sleeve at a bucket for *)
(* which no tenor of that sleeve is supplied                            *)
C26_Witness ==
    /\ Returned
    /\ \E pair \in VariablePairs :
          /\ ~Supplied(pair[1], pair[2])
          /\ \E b1 \in WeightedBuckets :
                b1 # pair[1] /\ NotAfter(b1, pair[1]) /\ SuppliedPositive(b1, pair[2])

(* C27: in every call that gets past variable discovery, the effective *)
(* tenor of every decision variable, inherited tenors included, is     *)
(* positive and does not exceed the horizon of its bucket.             *)
C27_VariableTenorWithinHorizon ==
    \A i \in DOMAIN variables :
        /\ variables[i][3] > 0
        /\ HasHorizon(variables[i][1])
        /\ variables[i][3] <= spec.bucket_horizons[variables[i][1]]

(* a call is past variable discovery with an inherited tenor and with a *)
(* tenor that is as long as the horizon of its bucket                   *)
C27_Witness ==
    /\ pc \in {"variables", "constraints", "solved", "validated", "returned"}
    /\ \E i \in DOMAIN variables :
          /\ ~Supplied(variables[i][1], variables[i][2])
          /\ variables[i][3] < spec.bucket_horizons[variables[i][1]]
    /\ \E i \in DOMAIN variables :
          variables[i][3] = spec.bucket_horizons[variables[i][1]]
    /\ \E key \in DOMAIN spec.tenors : spec.tenors[key] <= 0

(* a positive tenor supplied for a positive-weight bucket exceeds the *)
(* horizon of that bucket                                             *)
ExceedingTenor(b) ==
    /\ b \in WeightedBuckets
    /\ HasHorizon(b)
    /\ \E sl \in Sleeves :
          SuppliedPositive(b, sl) /\ spec.tenors[<<b, sl>>] > spec.bucket_horizons[b]

(* C28: if a positive tenor supplied for a positive-weight bucket     *)
(* exceeds that bucket's horizon, the call never gets its decision    *)
(* variables and never returns a result: when it ends it has raised,  *)
(* even if the bucket has other admissible tenors or inherited        *)
(* sleeves.                                                           *)
C28_ExceedingTenorRaises ==
    (\E b \in Buckets : ExceedingTenor(b)) =>
        /\ ~Returned
        /\ variables = Empty
        /\ result = Empty
        /\ Finished => (Raised /\ error # "")

(* the call raises at a bucket that has inherited sleeves and a tenor *)
(* beyond its horizon                                                 *)
C28_Witness ==
    /\ Raised
    /\ error = "Tenor exceeds horizon"
    /\ previous_sleeves # Empty
    /\ \E b \in Buckets : ExceedingTenor(b) /\ b \notin DOMAIN bucket_sleeve_tenors

(* the ProblemSpec without the buckets whose weight is 0 or less *)
WithoutUnweighted(spec_) ==
    [spec_ EXCEPT !.bucket_weights =
        [b \in {c \in DOMAIN spec_.bucket_weights : spec_.bucket_weights[c] > 0} |->
            spec_.bucket_weights[b]]]

UnweightedBuckets == Buckets \ WeightedBuckets

(* C29: buckets with a weight of 0 or less are ignored entirely: a call *)
(* ends as run_risk_equal_optimization ends for the same input with     *)
(* those buckets removed from bucket_weights; such buckets are not      *)
(* normalised, ordered or searched for sleeves, and they never appear   *)
(* in allocations or by_bucket.                                         *)
C29_UnweightedBucketsIgnored ==
    /\ Finished =>
          Outcome(result, error) = RunRiskEqualOptimization(WithoutUnweighted(spec))
    /\ \A b \in UnweightedBuckets :
          /\ b \notin DOMAIN normalised
          /\ b \notin Range(ordered_buckets)
          /\ b \notin DOMAIN bucket_sleeve_tenors
          /\ \A i \in DOMAIN variables : variables[i][1] # b
          /\ Returned =>
                /\ \A key \in AllocationKeys : key[1] # b
                /\ b \notin DOMAIN result.by_bucket

(* a call returns although a bucket of weight 0 or less has no horizon *)
(* and a tenor of a sleeve that no decision variable has               *)
C29_Witness ==
    /\ Returned
    /\ \E b \in UnweightedBuckets :
          /\ ~HasHorizon(b)
          /\ \E sl \in Sleeves :
                /\ SuppliedPositive(b, sl)
                /\ \A pair \in VariablePairs : pair[2] # sl

(* C30: after delete_allocation(id), following any sequence of          *)
(* add_allocation calls, the allocations table contains neither the     *)
(* deleted node nor any of its descendants: no stored allocation is     *)
(* left whose parent_id refers to the deleted row.                      *)
C30_DeleteRemovesDescendants ==
    \A id \in deleted :
        /\ id \notin DOMAIN table
        /\ \A r \in DOMAIN table : table[r] # id
        /\ WithDescendants(table, {id}) = {id}

====
